---- MODULE Spec2Model ----
(***************************************************************************)
(* ParallelExecutor of src/src/agents.py: the layer planner                *)
(* (_topological_sort), the task runner (execute_agent, a semaphore and a  *)
(* timeout around the opaque worker call) and the layer executor           *)
(* (mode_b_execution) with its refinement step (_evaluate_and_refine).     *)
(*                                                                         *)
(* One step of the model is one stretch of code between two suspension     *)
(* points of the asyncio event loop, or one iteration of a loop of         *)
(* mode_b_execution.                                                       *)
(***************************************************************************)
EXTENDS Integers, Sequences, FiniteSets, TLC

\* ------------------------------------------------------------------ bounds
MaxTasks == 3        \* longest submitted task list
MaxId == 3           \* task ids are drawn from 1..MaxId
MaxConcurrent == 2   \* largest max_concurrent given to the constructor
MaxModels == 1       \* longest model list given to a concurrent mode_a_execution
MaxSortTasks == 4    \* longest list given to _topological_sort on its own
MaxPrompts == 2      \* distinct prompts given to call_llm
MaxPlanTasks == 6    \* longest subtask list in a plan the controller's LLM writes
MaxDeps == 2         \* longest depends_on of the runs that show prompts

\* ------------------------------------------------------- program constants
MinResponseLen == 50 \* len(response) < 50 triggers a refinement
TimeoutSeconds == 60 \* execute_agent's default timeout
DefaultMaxConcurrent == 3 \* ParallelExecutor's default max_concurrent
MaxContextChars == 2000 \* _build_context cuts a longer parent result
MaxAttempts == 3     \* stop_after_attempt(3) on call_llm

Ids == 1..MaxId

NoError == "None"
SupportedModel == "llama-3.1-8b-instant"
UnsupportedModel == "claude-3-haiku"

\* ------------------------------------------------------------------- texts
\* A response text is known by its length and by whether its lower-cased
\* form contains one of the weak phrases; `text` tells the texts apart.
EmptyText == [text |-> "", len |-> 0, weak |-> FALSE]
SkippedText == [text |-> "Skipped due to failed dependency", len |-> 32, weak |-> FALSE]

\* What the worker may answer: one character short of the minimum, and
\* exactly the minimum.
WorkerResponses ==
    { [text |-> "brief", len |-> MinResponseLen - 1, weak |-> FALSE],
      [text |-> "detailed", len |-> MinResponseLen, weak |-> FALSE] }

\* the further texts a run that looks at prompts is given: answers with a
\* weak phrase, short and not, and answers of and over the length
\* _build_context keeps
ContentResponses ==
    WorkerResponses \cup
    { [text |-> "apology", len |-> MinResponseLen, weak |-> TRUE],
      [text |-> "sorry", len |-> MinResponseLen - 1, weak |-> TRUE],
      [text |-> "report", len |-> MaxContextChars, weak |-> FALSE],
      [text |-> "book", len |-> MaxContextChars + 1, weak |-> FALSE] }

\* ------------------------------------------------------------------- tasks
RECURSIVE SeqOfSet(_)
SeqOfSet(S) ==
    IF S = {} THEN <<>>
    ELSE LET m == CHOOSE x \in S : \A y \in S : x <= y
         IN <<m>> \o SeqOfSet(S \ {m})

\* depends_on lists: every set of ids, written in ascending order
DepLists == { SeqOfSet(S) : S \in SUBSET Ids }

TaskRecs == [id : Ids, depends_on : DepLists, model : {SupportedModel}]

RECURSIVE ListsUpTo(_, _)
ListsUpTo(S, n) ==
    IF n = 0 THEN { <<>> }
    ELSE LET shorter == ListsUpTo(S, n - 1)
         IN shorter \cup { Append(l, x) : l \in { s \in shorter : Len(s) = n - 1 }, x \in S }

\* every list of at most MaxTasks tasks: any order, repeated ids, unknown
\* dependencies, self-dependencies and cycles included
TaskLists == ListsUpTo(TaskRecs, MaxTasks)

\* the lists a planner numbers 1..n with dependencies on earlier tasks only
OrderedTaskLists ==
    { l \in TaskLists :
        \A i \in 1..Len(l) :
            /\ l[i].id = i
            /\ \A j \in 1..Len(l[i].depends_on) : l[i].depends_on[j] < i }

ModelLists == ListsUpTo({SupportedModel}, MaxModels) \ { <<>> }

Range(s) == { s[i] : i \in 1..Len(s) }
TaskIds(tasks) == { tasks[i].id : i \in 1..Len(tasks) }

\* ------------------------------------------------------- _topological_sort
\* graph / task_map are dicts built by a comprehension: a repeated id keeps
\* the position of its first occurrence and the value of its last one.
LastIndexOf(tasks, id) ==
    CHOOSE i \in 1..Len(tasks) :
        /\ tasks[i].id = id
        /\ \A j \in 1..Len(tasks) : tasks[j].id = id => j <= i

task_map(tasks, id) == tasks[LastIndexOf(tasks, id)]
graph(tasks, id) == Range(task_map(tasks, id).depends_on)

\* the keys of graph in insertion order
GraphKeys(tasks) ==
    LET first(i) == \A j \in 1..(i - 1) : tasks[j].id # tasks[i].id
        keep == SelectSeq([i \in 1..Len(tasks) |-> i], first)
    IN [k \in 1..Len(keep) |-> tasks[keep[k]].id]

\* mutant: the dependencies of a task are not looked at
current_layer_ignoring_deps(tasks, completed) ==
    LET keys == GraphKeys(tasks)
        ready(id) == id \notin completed
        ids == SelectSeq(keys, ready)
    IN [k \in 1..Len(ids) |-> task_map(tasks, ids[k])]

\* mutant: a layer takes the first ready task only
current_layer_first_ready(tasks, completed) ==
    LET keys == GraphKeys(tasks)
        ready(id) == id \notin completed /\ graph(tasks, id) \subseteq completed
        ids == SelectSeq(keys, ready)
    IN IF ids = <<>> THEN <<>> ELSE << task_map(tasks, ids[1]) >>

\* mutant: the tasks of a layer come out by ascending id
current_layer_by_ascending_id(tasks, completed) ==
    LET keys == GraphKeys(tasks)
        ready(id) == id \notin completed /\ graph(tasks, id) \subseteq completed
        ids == SeqOfSet(Range(SelectSeq(keys, ready)))
    IN [k \in 1..Len(ids) |-> task_map(tasks, ids[k])]

current_layer(tasks, completed) ==
    LET keys == GraphKeys(tasks)
        ready(id) == id \notin completed /\ graph(tasks, id) \subseteq completed
        ids == SelectSeq(keys, ready)
    IN [k \in 1..Len(ids) |-> task_map(tasks, ids[k])]

SortError == [error |-> TRUE, layers |-> <<>>]

\* mutant: an empty layer ends the loop with the layers found so far
RECURSIVE SortLoopTruncating(_, _, _, _)
SortLoopTruncating(tasks, lays, completed, loops) ==
    IF Cardinality(completed) >= Len(tasks)
    THEN [error |-> FALSE, layers |-> lays]
    ELSE IF loops + 1 > Len(tasks) + 2
    THEN SortError
    ELSE LET cur == current_layer(tasks, completed)
         IN IF cur = <<>>
            THEN [error |-> FALSE, layers |-> lays]
            ELSE SortLoopTruncating(tasks, Append(lays, cur),
                                    completed \cup TaskIds(cur), loops + 1)

\* mutant: the loop ends when every distinct id is completed
RECURSIVE SortLoopCountingKeys(_, _, _, _)
SortLoopCountingKeys(tasks, lays, completed, loops) ==
    IF Cardinality(completed) >= Cardinality(TaskIds(tasks))
    THEN [error |-> FALSE, layers |-> lays]
    ELSE IF loops + 1 > Len(tasks) + 2
    THEN SortError
    ELSE LET cur == current_layer(tasks, completed)
         IN IF cur = <<>>
            THEN SortError
            ELSE SortLoopCountingKeys(tasks, Append(lays, cur),
                                      completed \cup TaskIds(cur), loops + 1)

\* mutant: max_loops is set below the number of tasks
RECURSIVE SortLoopLowBound(_, _, _, _)
SortLoopLowBound(tasks, lays, completed, loops) ==
    IF Cardinality(completed) >= Len(tasks)
    THEN [error |-> FALSE, layers |-> lays]
    ELSE IF loops + 1 > Len(tasks) - 1
    THEN SortError
    ELSE LET cur == current_layer(tasks, completed)
         IN IF cur = <<>>
            THEN SortError
            ELSE SortLoopLowBound(tasks, Append(lays, cur),
                                  completed \cup TaskIds(cur), loops + 1)

RECURSIVE SortLoop(_, _, _, _)
SortLoop(tasks, lays, completed, loops) ==
    IF Cardinality(completed) >= Len(tasks)
    THEN [error |-> FALSE, layers |-> lays]
    ELSE IF loops + 1 > Len(tasks) + 2
    THEN SortError
    ELSE LET cur == current_layer(tasks, completed)
         IN IF cur = <<>>
            THEN SortError
            ELSE SortLoop(tasks, Append(lays, cur), completed \cup TaskIds(cur), loops + 1)

topological_sort(tasks) == SortLoop(tasks, <<>>, {}, 0)

\* ------------------------------------------------------------------- state
VARIABLES
    subtasks,          \* the list given to mode_b_execution
    max_concurrent,    \* the capacity the executor was constructed with
    semaphore,         \* free slots of self.semaphore
    pc,                \* where mode_b_execution stands
    layers,            \* the layers _topological_sort returned
    li,                \* index of the layer being executed (1-based)
    results_map,       \* id -> result
    final_results,     \* the output list being accumulated
    failed_task_ids,   \* FailedSet
    executable_tasks,  \* the tasks of the current layer that are run
    zi,                \* index of the (task, result) pair being stored
    agents,            \* the execute_agent coroutines of the run
    calls,             \* id -> number of client.call_llm calls issued for it
                       \* (0: the calls of mode_a_execution)
    returned,          \* what mode_b_execution returned
    mode_a,            \* a mode_a_execution run on the same executor
    answers,           \* the texts the opaque worker can answer in this run
    llm,               \* one call of LLMClient.call_llm under its retry decorator
    cache,             \* the ResponseCache: key -> stored result
    ctl                \* the Controller: one call of analyze_and_plan or _validate_dag

\* LLMClient.call_llm and the ResponseCache it consults
llm_vars == << llm, cache >>

vars == << subtasks, max_concurrent, semaphore, pc, layers, li, results_map,
           final_results, failed_task_ids, executable_tasks, zi, agents,
           calls, returned, mode_a, answers, llm, cache, ctl >>

\* agents[0] is the execute_agent awaited by _evaluate_and_refine, agents[k]
\* for 1 <= k <= MaxTasks is layer_tasks[k-1] of the current layer, and
\* agents[MaxTasks + m] is tasks[m-1] of mode_a_execution.
LayerKeys == 1..MaxTasks
RefineKey == 0
ModeAKeys == (MaxTasks + 1)..(MaxTasks + MaxModels)
AgentKeys == {RefineKey} \cup LayerKeys \cup ModeAKeys

NoResult == [response |-> EmptyText, model |-> "", tokens |-> 0, latency |-> 0,
             error |-> NoError]
\* ------------------------------------------------------------- prompts
\* A prompt is known by its parts: the context built from the parents'
\* results, the description of the task (named by the task's id; 0 is the
\* prompt given to mode_a_execution) and the amendment a refinement adds.
\* execute_agent appends the same Markdown instruction to every prompt.
EmptyContext == [header |-> FALSE, blocks |-> <<>>]

Min(a, b) == IF a <= b THEN a ELSE b

\* mutant: a response of exactly MaxContextChars characters is marked too
context_part_marking_at_bound(dep_id, parent_result) ==
    [id |-> dep_id, response |-> parent_result,
     kept |-> Min(parent_result.len, MaxContextChars),
     truncated |-> parent_result.len >= MaxContextChars]

\* f"From Task {dep_id}:\n{parent_result}\n" with parent_result cut to its
\* first MaxContextChars characters and marked when it is longer
context_part(dep_id, parent_result) ==
    [id |-> dep_id, response |-> parent_result,
     kept |-> Min(parent_result.len, MaxContextChars),
     truncated |-> parent_result.len > MaxContextChars]

\* mutant: the blocks come out last dependency first
build_context_reversed(task, map) ==
    IF task.depends_on = <<>> THEN EmptyContext
    ELSE LET known(dep_id) == dep_id \in DOMAIN map
             deps == SelectSeq(task.depends_on, known)
             n == Len(deps)
         IN [header |-> TRUE,
             blocks |-> [k \in 1..n |->
                           context_part(deps[n + 1 - k], map[deps[n + 1 - k]].response)]]

\* mutant: the header is written for a task without dependencies too
build_context_without_guard(task, map) ==
    LET known(dep_id) == dep_id \in DOMAIN map
        deps == SelectSeq(task.depends_on, known)
    IN [header |-> TRUE,
        blocks |-> [k \in 1..Len(deps) |-> context_part(deps[k], map[deps[k]].response)]]

build_context(task, map) ==
    IF task.depends_on = <<>> THEN EmptyContext
    ELSE LET known(dep_id) == dep_id \in DOMAIN map
             deps == SelectSeq(task.depends_on, known)
         IN [header |-> TRUE,
             blocks |-> [k \in 1..Len(deps) |-> context_part(deps[k], map[deps[k]].response)]]

\* f"Context:\n{context}\n\nTask:\n{task['description']}" if context else
\* task['description']
full_prompt(task, context) ==
    [context |-> context, description |-> task.id, amendment |-> "none"]

NoPrompt == [context |-> EmptyContext, description |-> 0, amendment |-> "none"]

NoAgent == [st |-> "none", id |-> 0, model |-> "", result |-> NoResult,
            prompt |-> NoPrompt]
NewAgent(task, prompt) ==
    [st |-> "waiting", id |-> task.id, model |-> task.model, result |-> NoResult,
     prompt |-> prompt]

Put(map, k, v) == [x \in DOMAIN map \cup {k} |-> IF x = k THEN v ELSE map[x]]

\* result["id"] = task["id"] (and task_id, task: the same metadata)
Tagged(result, task) ==
    [id |-> task.id, response |-> result.response, model |-> result.model,
     tokens |-> result.tokens, latency |-> result.latency, error |-> result.error]

skipped_result(task) ==
    [id |-> task.id, response |-> SkippedText, model |-> task.model,
     tokens |-> 0, latency |-> 0, error |-> "Dependency failed"]

timeout_result(model) ==
    [response |-> EmptyText, model |-> model, tokens |-> 0,
     latency |-> TimeoutSeconds, error |-> "Timeout"]

\* the dict call_llm builds after a successful API call
llm_result(model, resp) ==
    [response |-> resp, model |-> model, tokens |-> resp.len, latency |-> 1,
     error |-> NoError]

NoModeA == [pc |-> "absent", models |-> <<>>, results |-> <<>>]

\* the Controller is not followed
NoPlan == [kind |-> "none", has_mode |-> FALSE, mode |-> "", has_plan |-> FALSE,
           has_models |-> FALSE, models |-> <<>>, subtasks |-> <<>>]

NoCtl == [pc |-> "absent", verdict |-> FALSE, llm_calls |-> 0, first |-> NoPlan,
          second |-> NoPlan, plan |-> NoPlan]

\* no call of call_llm is followed
NoLlm == [pc |-> "absent", model |-> "", prompt |-> 0, use_cache |-> FALSE,
          attempts |-> 0, failures |-> 0, api_calls |-> 0, result |-> NoResult,
          raised |-> "None"]

\* ParallelExecutor(llm_client, max_concurrent) and a call of
\* mode_b_execution(subtasks)
Init ==
    /\ subtasks \in TaskLists
    /\ max_concurrent \in 1..MaxConcurrent
    /\ semaphore = max_concurrent
    /\ pc = "start"
    /\ layers = <<>>
    /\ li = 0
    /\ results_map = << >>
    /\ final_results = <<>>
    /\ failed_task_ids = {}
    /\ executable_tasks = <<>>
    /\ zi = 0
    /\ agents = [k \in AgentKeys |-> NoAgent]
    /\ calls = [i \in {0} \cup Ids |-> 0]
    /\ returned = "nothing"
    /\ mode_a = NoModeA
    /\ answers = WorkerResponses
    /\ ctl = NoCtl
    /\ llm = NoLlm
    /\ cache = << >>

\* ---------------------------------------------------------- execute_agent
\* ResponseCache._get_key of (model, f"{system_prompt or ''}\n{prompt}"),
\* system_prompt left at its default
cache_key(model, prompt) == << model, prompt >>

\* call_llm finds a stored result for the model and prompt of this call
CacheHit(k) == cache_key(agents[k].model, agents[k].prompt) \in DOMAIN cache

\* mutant: the call starts without a slot being free
AcquireWithoutSlot(k) ==
    /\ agents[k].st = "waiting"
    /\ semaphore' = semaphore - 1
    /\ agents' = [agents EXCEPT ![k].st = "inflight"]
    /\ calls' = [calls EXCEPT ![agents[k].id] = @ + 1]
    /\ UNCHANGED << subtasks, max_concurrent, pc, layers, li, results_map,
                    final_results, failed_task_ids, executable_tasks, zi,
                    returned, mode_a, answers, ctl, llm_vars >>

\* async with self.semaphore: a slot is taken when one is free
Acquire(k) ==
    /\ agents[k].st = "waiting"
    /\ semaphore > 0
    /\ semaphore' = semaphore - 1
    /\ agents' = [agents EXCEPT ![k].st = "inflight"]
    /\ calls' = [calls EXCEPT ![agents[k].id] = @ + 1]
    /\ UNCHANGED << subtasks, max_concurrent, pc, layers, li, results_map,
                    final_results, failed_task_ids, executable_tasks, zi, returned, mode_a, answers, ctl, llm_vars >>

\* mutant: an exception leaves the call without giving the slot back
ReleaseNotOnRaise(k, st, result) ==
    /\ semaphore' = IF st = "raised" THEN semaphore ELSE semaphore + 1
    /\ agents' = [agents EXCEPT ![k].st = st, ![k].result = result]
    /\ UNCHANGED << subtasks, max_concurrent, pc, layers, li, results_map,
                    final_results, failed_task_ids, executable_tasks, zi,
                    calls, returned, mode_a, answers, ctl, llm >>

Release(k, st, result) ==
    /\ semaphore' = semaphore + 1
    /\ agents' = [agents EXCEPT ![k].st = st, ![k].result = result]
    /\ UNCHANGED << subtasks, max_concurrent, pc, layers, li, results_map,
                    final_results, failed_task_ids, executable_tasks, zi,
                    calls, returned, mode_a, answers, ctl, llm >>

\* call_llm returns the stored result before any await: no request is made
WorkerCacheHit(k) ==
    /\ agents[k].st = "inflight"
    /\ CacheHit(k)
    /\ Release(k, "returned", cache[cache_key(agents[k].model, agents[k].prompt)])
    /\ UNCHANGED cache

\* call_llm returns within the timeout and has stored its result
WorkerReturn(k) ==
    /\ agents[k].st = "inflight"
    /\ ~CacheHit(k)
    /\ agents[k].model = SupportedModel
    /\ \E resp \in answers :
          /\ Release(k, "returned", llm_result(agents[k].model, resp))
          /\ cache' = Put(cache, cache_key(agents[k].model, agents[k].prompt),
                          llm_result(agents[k].model, resp))

\* mutant: asyncio.TimeoutError is not caught
WorkerTimeoutUncaught(k) ==
    /\ agents[k].st = "inflight"
    /\ ~CacheHit(k)
    /\ agents[k].model = SupportedModel
    /\ Release(k, "raised", NoResult)
    /\ UNCHANGED cache

\* mutant: a timeout cancels the other calls in flight, which end as
\* timeouts too
WorkerTimeoutCancelling(k) ==
    /\ agents[k].st = "inflight"
    /\ ~CacheHit(k)
    /\ agents[k].model = SupportedModel
    /\ LET hit == { j \in DOMAIN agents : agents[j].st = "inflight" }
       IN /\ agents' = [j \in DOMAIN agents |->
                          IF j \in hit
                          THEN [agents[j] EXCEPT !.st = "returned",
                                                 !.result = timeout_result(agents[j].model)]
                          ELSE agents[j]]
          /\ semaphore' = semaphore + Cardinality(hit)
    /\ UNCHANGED << subtasks, max_concurrent, pc, layers, li, results_map,
                    final_results, failed_task_ids, executable_tasks, zi,
                    calls, returned, mode_a, answers, ctl, llm, cache >>

\* mutant: the call that timed out keeps its slot
WorkerTimeoutKeepingSlot(k) ==
    /\ agents[k].st = "inflight"
    /\ ~CacheHit(k)
    /\ agents[k].model = SupportedModel
    /\ agents' = [agents EXCEPT ![k].st = "returned",
                                ![k].result = timeout_result(agents[k].model)]
    /\ UNCHANGED << subtasks, max_concurrent, semaphore, pc, layers, li,
                    results_map, final_results, failed_task_ids, executable_tasks,
                    zi, calls, returned, mode_a, answers, ctl, llm, cache >>

\* asyncio.TimeoutError is caught and turned into a result
WorkerTimeout(k) ==
    /\ agents[k].st = "inflight"
    /\ ~CacheHit(k)
    /\ agents[k].model = SupportedModel
    /\ Release(k, "returned", timeout_result(agents[k].model))
    /\ UNCHANGED cache

\* mutant: the exception is caught and turned into a result with an error
WorkerRaiseAsResult(k) ==
    /\ agents[k].st = "inflight"
    /\ ~CacheHit(k)
    /\ Release(k, "returned", [timeout_result(agents[k].model) EXCEPT !.error = "Error"])
    /\ UNCHANGED cache

\* call_llm raises (retries exhausted, or the model is unsupported): nothing
\* in execute_agent catches it
WorkerRaise(k) ==
    /\ agents[k].st = "inflight"
    /\ ~CacheHit(k)
    /\ Release(k, "raised", NoResult)
    /\ UNCHANGED cache

\* ------------------------------------------------------- mode_b_execution
Start ==
    /\ pc = "start"
    /\ LET s == topological_sort(subtasks)
       IN IF s.error
          THEN /\ pc' = "done"
               /\ returned' = <<>>
               /\ UNCHANGED << layers, li >>
          ELSE /\ pc' = "layer"
               /\ layers' = s.layers
               /\ li' = 1
               /\ UNCHANGED returned
    /\ UNCHANGED << subtasks, max_concurrent, semaphore, results_map,
                    final_results, failed_task_ids, executable_tasks, zi,
                    agents, calls, mode_a, answers, ctl, llm_vars >>

\* mutant: no task is skipped
RECURSIVE FilterLayerNoSkip(_, _, _)
FilterLayerNoSkip(layer, k, acc) ==
    IF k > Len(layer) THEN acc
    ELSE FilterLayerNoSkip(layer, k + 1,
            [acc EXCEPT !.executable = Append(@, layer[k])])

\* mutant: the id of a skipped task is not added to failed_task_ids
RECURSIVE FilterLayerNoCascade(_, _, _)
FilterLayerNoCascade(layer, k, acc) ==
    IF k > Len(layer) THEN acc
    ELSE LET task == layer[k]
         IN IF \E dep_id \in Range(task.depends_on) : dep_id \in acc.failed
            THEN FilterLayerNoCascade(layer, k + 1,
                    [map |-> Put(acc.map, task.id, skipped_result(task)),
                     final |-> Append(acc.final, skipped_result(task)),
                     failed |-> acc.failed,
                     executable |-> acc.executable])
            ELSE FilterLayerNoCascade(layer, k + 1,
                    [acc EXCEPT !.executable = Append(@, task)])

\* mutant: any failure so far skips every later task
RECURSIVE FilterLayerAnyFailure(_, _, _)
FilterLayerAnyFailure(layer, k, acc) ==
    IF k > Len(layer) THEN acc
    ELSE LET task == layer[k]
         IN IF acc.failed # {}
            THEN FilterLayerAnyFailure(layer, k + 1,
                    [map |-> Put(acc.map, task.id, skipped_result(task)),
                     final |-> Append(acc.final, skipped_result(task)),
                     failed |-> acc.failed \cup {task.id},
                     executable |-> acc.executable])
            ELSE FilterLayerAnyFailure(layer, k + 1,
                    [acc EXCEPT !.executable = Append(@, task)])

\* the loop over the tasks of a layer that filters out the tasks with a
\* failed dependency
RECURSIVE FilterLayer(_, _, _)
FilterLayer(layer, k, acc) ==
    IF k > Len(layer) THEN acc
    ELSE LET task == layer[k]
         IN IF \E dep_id \in Range(task.depends_on) : dep_id \in acc.failed
            THEN FilterLayer(layer, k + 1,
                    [map |-> Put(acc.map, task.id, skipped_result(task)),
                     final |-> Append(acc.final, skipped_result(task)),
                     failed |-> acc.failed \cup {task.id},
                     executable |-> acc.executable])
            ELSE FilterLayer(layer, k + 1,
                    [acc EXCEPT !.executable = Append(@, task)])

\* mutant: _build_context cuts the stored response of a dependency in place
RunLayerCuttingStored ==
    /\ pc = "layer"
    /\ li <= Len(layers)
    /\ LET acc == FilterLayer(layers[li], 1,
                     [map |-> results_map, final |-> final_results,
                      failed |-> failed_task_ids, executable |-> <<>>])
       IN /\ results_map' =
                [id \in DOMAIN acc.map |->
                   IF \E k \in 1..Len(acc.executable) :
                         id \in Range(acc.executable[k].depends_on)
                   THEN [acc.map[id] EXCEPT
                            !.response.len = Min(@, MaxContextChars)]
                   ELSE acc.map[id]]
          /\ final_results' = acc.final
          /\ failed_task_ids' = acc.failed
          /\ executable_tasks' = acc.executable
          /\ agents' = [k \in AgentKeys |->
                          IF k \in 1..Len(acc.executable)
                          THEN NewAgent(acc.executable[k],
                                        full_prompt(acc.executable[k],
                                            build_context(acc.executable[k], acc.map)))
                          ELSE IF k \in ModeAKeys THEN agents[k] ELSE NoAgent]
    /\ pc' = "gather"
    /\ UNCHANGED << subtasks, max_concurrent, semaphore, layers, li, zi,
                    calls, returned, mode_a, answers, ctl, llm_vars >>

\* one layer up to the await of gather
RunLayer ==
    /\ pc = "layer"
    /\ li <= Len(layers)
    /\ LET acc == FilterLayer(layers[li], 1,
                     [map |-> results_map, final |-> final_results,
                      failed |-> failed_task_ids, executable |-> <<>>])
       IN /\ results_map' = acc.map
          /\ final_results' = acc.final
          /\ failed_task_ids' = acc.failed
          /\ executable_tasks' = acc.executable
          /\ agents' = [k \in AgentKeys |->
                          IF k \in 1..Len(acc.executable)
                          THEN NewAgent(acc.executable[k],
                                        full_prompt(acc.executable[k],
                                            build_context(acc.executable[k], acc.map)))
                          ELSE IF k \in ModeAKeys THEN agents[k] ELSE NoAgent]
    /\ pc' = "gather"
    /\ UNCHANGED << subtasks, max_concurrent, semaphore, layers, li, zi,
                    calls, returned, mode_a, answers, ctl, llm_vars >>

\* return final_results
Return ==
    /\ pc = "layer"
    /\ li > Len(layers)
    /\ pc' = "done"
    /\ returned' = final_results
    /\ UNCHANGED << subtasks, max_concurrent, semaphore, layers, li,
                    results_map, final_results, failed_task_ids,
                    executable_tasks, zi, agents, calls, mode_a, answers, ctl, llm_vars >>

\* mutant: the layer goes on as soon as one of its calls has returned
GatherReturnEarly ==
    /\ pc = "gather"
    /\ \E k \in 1..Len(executable_tasks) : agents[k].st = "returned"
    /\ pc' = "store"
    /\ zi' = 1
    /\ UNCHANGED << subtasks, max_concurrent, semaphore, layers, li,
                    results_map, final_results, failed_task_ids,
                    executable_tasks, agents, calls, returned, mode_a, answers, ctl, llm_vars >>

\* asyncio.gather returns the results in the order of layer_tasks
GatherReturn ==
    /\ pc = "gather"
    /\ \A k \in 1..Len(executable_tasks) : agents[k].st = "returned"
    /\ pc' = "store"
    /\ zi' = 1
    /\ UNCHANGED << subtasks, max_concurrent, semaphore, layers, li,
                    results_map, final_results, failed_task_ids,
                    executable_tasks, agents, calls, returned, mode_a, answers, ctl, llm_vars >>

\* asyncio.gather raises the first exception of its awaitables; the others
\* keep running
GatherRaise ==
    /\ pc = "gather"
    /\ \E k \in 1..Len(executable_tasks) : agents[k].st = "raised"
    /\ pc' = "raised"
    /\ UNCHANGED << subtasks, max_concurrent, semaphore, layers, li,
                    results_map, final_results, failed_task_ids,
                    executable_tasks, zi, agents, calls, returned, mode_a, answers, ctl, llm_vars >>

\* _evaluate_and_refine's two heuristics: is a refinement call made?
too_short(result) == result.response.len < MinResponseLen
has_weak_phrase(result) == result.response.weak
needs_refinement(result) == too_short(result) \/ has_weak_phrase(result)

\* mutant: the weak phrases are looked for before the length
refine_prompt_refusal_first(task, result) ==
    [context |-> EmptyContext, description |-> task.id,
     amendment |-> IF has_weak_phrase(result)
                   THEN "PREVIOUS ATTEMPT FAILED. DO NOT APOLOGIZE"
                   ELSE "PREVIOUS ATTEMPT WAS TOO SHORT"]

\* mutant: the refinement call is given the context of the first call
refine_prompt_with_context(task, result) ==
    [context |-> build_context(task, results_map), description |-> task.id,
     amendment |-> IF too_short(result)
                   THEN "PREVIOUS ATTEMPT WAS TOO SHORT"
                   ELSE "PREVIOUS ATTEMPT FAILED. DO NOT APOLOGIZE"]

\* the prompt of the refinement call: the description and one of the two
\* amendments, heuristic 1 first
refine_prompt(task, result) ==
    [context |-> EmptyContext, description |-> task.id,
     amendment |-> IF too_short(result)
                   THEN "PREVIOUS ATTEMPT WAS TOO SHORT"
                   ELSE "PREVIOUS ATTEMPT FAILED. DO NOT APOLOGIZE"]

\* mutant: the refinement call is started and the loop goes on without it
StoreResultNotAwaiting ==
    /\ pc = "store"
    /\ zi <= Len(executable_tasks)
    /\ LET task == executable_tasks[zi]
           result == Tagged(agents[zi].result, task)
       IN /\ results_map' = Put(results_map, task.id, result)
          /\ final_results' = Append(final_results, result)
          /\ zi' = zi + 1
          /\ IF result.error # NoError
             THEN /\ failed_task_ids' = failed_task_ids \cup {task.id}
                  /\ UNCHANGED << pc, agents >>
             ELSE /\ UNCHANGED << failed_task_ids, pc >>
                  /\ IF needs_refinement(result)
                     THEN agents' = [agents EXCEPT ![RefineKey] =
                                        NewAgent(task, refine_prompt(task, result))]
                     ELSE UNCHANGED agents
    /\ UNCHANGED << subtasks, max_concurrent, semaphore, layers, li,
                    executable_tasks, calls, returned, mode_a, answers, ctl, llm_vars >>

\* mutant: the result is stored under its position in the layer
StoreResultByPosition ==
    /\ pc = "store"
    /\ zi <= Len(executable_tasks)
    /\ LET task == executable_tasks[zi]
           result == Tagged(agents[zi].result, task)
       IN /\ results_map' = Put(results_map, zi, result)
          /\ final_results' = Append(final_results, result)
          /\ IF result.error # NoError
             THEN /\ failed_task_ids' = failed_task_ids \cup {task.id}
                  /\ zi' = zi + 1
                  /\ UNCHANGED << pc, agents >>
             ELSE /\ UNCHANGED failed_task_ids
                  /\ IF needs_refinement(result)
                     THEN /\ agents' = [agents EXCEPT ![RefineKey] =
                                            NewAgent(task, refine_prompt(task, result))]
                          /\ pc' = "refine"
                          /\ UNCHANGED zi
                     ELSE /\ zi' = zi + 1
                          /\ UNCHANGED << pc, agents >>
    /\ UNCHANGED << subtasks, max_concurrent, semaphore, layers, li,
                    executable_tasks, calls, returned, mode_a, answers, ctl, llm_vars >>

\* one iteration of the loop over zip(executable_tasks, layer_results), up
\* to the await inside _evaluate_and_refine
StoreResult ==
    /\ pc = "store"
    /\ zi <= Len(executable_tasks)
    /\ LET task == executable_tasks[zi]
           result == Tagged(agents[zi].result, task)
       IN /\ results_map' = Put(results_map, task.id, result)
          /\ final_results' = Append(final_results, result)
          /\ IF result.error # NoError
             THEN /\ failed_task_ids' = failed_task_ids \cup {task.id}
                  /\ zi' = zi + 1
                  /\ UNCHANGED << pc, agents >>
             ELSE /\ UNCHANGED failed_task_ids
                  /\ IF needs_refinement(result)
                     THEN /\ agents' = [agents EXCEPT ![RefineKey] =
                                            NewAgent(task, refine_prompt(task, result))]
                          /\ pc' = "refine"
                          /\ UNCHANGED zi
                     ELSE /\ zi' = zi + 1
                          /\ UNCHANGED << pc, agents >>
    /\ UNCHANGED << subtasks, max_concurrent, semaphore, layers, li,
                    executable_tasks, calls, returned, mode_a, answers, ctl, llm_vars >>

\* mutant: the refined result is appended, the first one stays
RefineReturnAppending ==
    /\ pc = "refine"
    /\ agents[RefineKey].st = "returned"
    /\ LET task == executable_tasks[zi]
           result == Tagged(agents[RefineKey].result, task)
       IN /\ results_map' = Put(results_map, task.id, result)
          /\ final_results' = Append(final_results, result)
    /\ zi' = zi + 1
    /\ pc' = "store"
    /\ agents' = [agents EXCEPT ![RefineKey] = NoAgent]
    /\ UNCHANGED << subtasks, max_concurrent, semaphore, layers, li,
                    failed_task_ids, executable_tasks, calls, returned, mode_a, answers, ctl, llm_vars >>

\* mutant: the refined result is evaluated like a first result
RefineReturnReevaluating ==
    /\ pc = "refine"
    /\ agents[RefineKey].st = "returned"
    /\ LET task == executable_tasks[zi]
           result == Tagged(agents[RefineKey].result, task)
       IN /\ results_map' = Put(results_map, task.id, result)
          /\ final_results' = [final_results EXCEPT ![Len(final_results)] = result]
          /\ IF result.error = NoError /\ needs_refinement(result)
             THEN /\ agents' = [agents EXCEPT ![RefineKey] =
                                    NewAgent(task, refine_prompt(task, result))]
                  /\ UNCHANGED << pc, zi >>
             ELSE /\ zi' = zi + 1
                  /\ pc' = "store"
                  /\ agents' = [agents EXCEPT ![RefineKey] = NoAgent]
    /\ UNCHANGED << subtasks, max_concurrent, semaphore, layers, li,
                    failed_task_ids, executable_tasks, calls, returned, mode_a,
                    answers, ctl, llm_vars >>

\* mutant: a refinement result with an error leaves the first result stored
RefineReturnKeepingOnError ==
    /\ pc = "refine"
    /\ agents[RefineKey].st = "returned"
    /\ LET task == executable_tasks[zi]
           result == Tagged(agents[RefineKey].result, task)
       IN IF result.error # NoError
          THEN UNCHANGED << results_map, final_results >>
          ELSE /\ results_map' = Put(results_map, task.id, result)
               /\ final_results' = [final_results EXCEPT ![Len(final_results)] = result]
    /\ zi' = zi + 1
    /\ pc' = "store"
    /\ agents' = [agents EXCEPT ![RefineKey] = NoAgent]
    /\ UNCHANGED << subtasks, max_concurrent, semaphore, layers, li,
                    failed_task_ids, executable_tasks, calls, returned, mode_a,
                    answers, ctl, llm_vars >>

\* the refinement call returned: its result replaces the stored one
RefineReturn ==
    /\ pc = "refine"
    /\ agents[RefineKey].st = "returned"
    /\ LET task == executable_tasks[zi]
           result == Tagged(agents[RefineKey].result, task)
       IN /\ results_map' = Put(results_map, task.id, result)
          /\ final_results' = [final_results EXCEPT ![Len(final_results)] = result]
    /\ zi' = zi + 1
    /\ pc' = "store"
    /\ agents' = [agents EXCEPT ![RefineKey] = NoAgent]
    /\ UNCHANGED << subtasks, max_concurrent, semaphore, layers, li,
                    failed_task_ids, executable_tasks, calls, returned, mode_a, answers, ctl, llm_vars >>

\* the refinement call raised: the exception leaves mode_b_execution
RefineRaise ==
    /\ pc = "refine"
    /\ agents[RefineKey].st = "raised"
    /\ pc' = "raised"
    /\ UNCHANGED << subtasks, max_concurrent, semaphore, layers, li,
                    results_map, final_results, failed_task_ids,
                    executable_tasks, zi, agents, calls, returned, mode_a, answers, ctl, llm_vars >>

\* the loop over the pairs is over: on to the next layer; layer_tasks and
\* layer_results of this one are dropped
NextLayer ==
    /\ pc = "store"
    /\ zi > Len(executable_tasks)
    /\ li' = li + 1
    /\ pc' = "layer"
    /\ agents' = [k \in AgentKeys |-> IF k \in ModeAKeys THEN agents[k] ELSE NoAgent]
    /\ executable_tasks' = <<>>
    /\ zi' = 0
    /\ UNCHANGED << subtasks, max_concurrent, semaphore, layers, results_map,
                    final_results, failed_task_ids, calls, returned, mode_a, answers, ctl, llm_vars >>

\* ------------------------------------------------------- mode_a_execution
\* tasks = [execute_agent(model, prompt) for model in models], up to the
\* await of gather
StartA ==
    /\ mode_a.pc = "start"
    /\ agents' = [k \in AgentKeys |->
                    IF k \in ModeAKeys /\ k - MaxTasks <= Len(mode_a.models)
                    THEN [st |-> "waiting", id |-> 0,
                          model |-> mode_a.models[k - MaxTasks], result |-> NoResult,
                          prompt |-> NoPrompt]
                    ELSE agents[k]]
    /\ mode_a' = [mode_a EXCEPT !.pc = "gather"]
    /\ UNCHANGED << subtasks, max_concurrent, semaphore, pc, layers, li,
                    results_map, final_results, failed_task_ids,
                    executable_tasks, zi, calls, returned, answers, ctl, llm_vars >>

GatherReturnA ==
    /\ mode_a.pc = "gather"
    /\ \A m \in 1..Len(mode_a.models) : agents[MaxTasks + m].st = "returned"
    /\ mode_a' = [mode_a EXCEPT
                    !.pc = "done",
                    !.results = [m \in 1..Len(mode_a.models) |-> agents[MaxTasks + m].result]]
    /\ UNCHANGED << subtasks, max_concurrent, semaphore, pc, layers, li,
                    results_map, final_results, failed_task_ids,
                    executable_tasks, zi, agents, calls, returned, answers, ctl, llm_vars >>

GatherRaiseA ==
    /\ mode_a.pc = "gather"
    /\ \E m \in 1..Len(mode_a.models) : agents[MaxTasks + m].st = "raised"
    /\ mode_a' = [mode_a EXCEPT !.pc = "raised"]
    /\ UNCHANGED << subtasks, max_concurrent, semaphore, pc, layers, li,
                    results_map, final_results, failed_task_ids,
                    executable_tasks, zi, agents, calls, returned, answers, ctl, llm_vars >>

Next ==
    \/ Start
    \/ RunLayer
    \/ Return
    \/ \E k \in AgentKeys : Acquire(k)
    \/ \E k \in AgentKeys : WorkerReturn(k)
    \/ \E k \in AgentKeys : WorkerTimeout(k)
    \/ \E k \in AgentKeys : WorkerRaise(k)
    \/ GatherReturn
    \/ GatherRaise
    \/ StoreResult
    \/ RefineReturn
    \/ RefineRaise
    \/ NextLayer

Spec == Init /\ [][Next]_vars

\* The executor of src/src/api.py is one object for all requests: a
\* mode_b_execution run and a mode_a_execution run share its semaphore.
InitShared ==
    /\ subtasks \in OrderedTaskLists
    /\ max_concurrent \in 1..DefaultMaxConcurrent
    /\ semaphore = max_concurrent
    /\ pc = "start"
    /\ layers = <<>>
    /\ li = 0
    /\ results_map = << >>
    /\ final_results = <<>>
    /\ failed_task_ids = {}
    /\ executable_tasks = <<>>
    /\ zi = 0
    /\ agents = [k \in AgentKeys |-> NoAgent]
    /\ calls = [i \in {0} \cup Ids |-> 0]
    /\ returned = "nothing"
    /\ \E models \in ModelLists :
          mode_a = [pc |-> "start", models |-> models, results |-> <<>>]
    /\ answers = WorkerResponses
    /\ ctl = NoCtl
    /\ llm = NoLlm
    /\ cache = << >>

NextShared ==
    \/ Next
    \/ StartA
    \/ GatherReturnA
    \/ GatherRaiseA

SpecShared == InitShared /\ [][NextShared]_vars

\* ------------------------------------------------ runs that show prompts
\* Task lists numbered 1..n whose depends_on is any list, in any order and
\* with repeats, of at most MaxDeps earlier ids; the worker answers with
\* any of ContentResponses.
DepSeqs(i) == ListsUpTo(1..(i - 1), MaxDeps)

RECURSIVE ContextTaskListsOfLen(_)
ContextTaskListsOfLen(n) ==
    IF n = 0 THEN { <<>> }
    ELSE { Append(l, [id |-> n, depends_on |-> d, model |-> SupportedModel]) :
              l \in ContextTaskListsOfLen(n - 1), d \in DepSeqs(n) }

ContextTaskLists == UNION { ContextTaskListsOfLen(n) : n \in 0..MaxTasks }

InitContext ==
    /\ subtasks \in ContextTaskLists
    /\ max_concurrent = DefaultMaxConcurrent
    /\ semaphore = max_concurrent
    /\ pc = "start"
    /\ layers = <<>>
    /\ li = 0
    /\ results_map = << >>
    /\ final_results = <<>>
    /\ failed_task_ids = {}
    /\ executable_tasks = <<>>
    /\ zi = 0
    /\ agents = [k \in AgentKeys |-> NoAgent]
    /\ calls = [i \in {0} \cup Ids |-> 0]
    /\ returned = "nothing"
    /\ mode_a = NoModeA
    /\ answers = ContentResponses
    /\ ctl = NoCtl
    /\ llm = NoLlm
    /\ cache = << >>

SpecContext == InitContext /\ [][Next]_vars

\* ------------------------------------------- _topological_sort on its own
\* Lists of up to MaxSortTasks tasks numbered in list order; a task may
\* depend on any set of the ids of the list, itself and later tasks included.
SortDepLists(n) == { SeqOfSet(S) : S \in SUBSET (1..n) }

SortTaskLists(n) ==
    { l \in [1..n -> [id : 1..n, depends_on : SortDepLists(n),
                      model : {SupportedModel}]] :
         \A i \in 1..n : l[i].id = i }

InitSort ==
    /\ \E n \in 0..MaxSortTasks : subtasks \in SortTaskLists(n)
    /\ max_concurrent = DefaultMaxConcurrent
    /\ semaphore = max_concurrent
    /\ pc = "start"
    /\ layers = <<>>
    /\ li = 0
    /\ results_map = << >>
    /\ final_results = <<>>
    /\ failed_task_ids = {}
    /\ executable_tasks = <<>>
    /\ zi = 0
    /\ agents = [k \in AgentKeys |-> NoAgent]
    /\ calls = [i \in {0} \cup Ids |-> 0]
    /\ returned = "nothing"
    /\ mode_a = NoModeA
    /\ answers = WorkerResponses
    /\ ctl = NoCtl
    /\ llm = NoLlm
    /\ cache = << >>

\* one call of _topological_sort: it returns the layers or raises ValueError
Sort ==
    /\ pc = "start"
    /\ LET s == topological_sort(subtasks)
       IN /\ pc' = IF s.error THEN "sort_raised" ELSE "sorted"
          /\ layers' = s.layers
    /\ UNCHANGED << subtasks, max_concurrent, semaphore, li, results_map,
                    final_results, failed_task_ids, executable_tasks, zi,
                    agents, calls, returned, mode_a, answers, ctl, llm_vars >>

SpecSort == InitSort /\ [][Sort]_vars

\* ---------------------------------------------------- LLMClient.call_llm
\* One call of call_llm under @retry(stop_after_attempt(3), wait_exponential,
\* retry_if_exception_type(Exception), reraise=True). llm.attempts counts the
\* runs of the body, llm.api_calls the requests sent, llm.failures the
\* requests that raised.
OpenAIModels == { "gpt-4o-mini" }
GroqModels == { SupportedModel }
LlmModels == OpenAIModels \cup GroqModels \cup { UnsupportedModel }

\* "gpt" in model.lower(), then "llama" / "mixtral" / "gemma", else ValueError
route(model) ==
    IF model \in OpenAIModels THEN "openai"
    ELSE IF model \in GroqModels THEN "groq"
    ELSE "unsupported"

\* what the cache directory may hold before the call: results of earlier
\* successful calls
StoredResult(key) ==
    llm_result(key[1], CHOOSE r \in WorkerResponses : r.text = "detailed")

InitialCaches ==
    { [key \in K |-> StoredResult(key)] :
         K \in SUBSET { cache_key(m, q) : m \in OpenAIModels \cup GroqModels,
                                          q \in 1..MaxPrompts } }

InitLLM ==
    /\ subtasks = <<>>
    /\ max_concurrent = DefaultMaxConcurrent
    /\ semaphore = max_concurrent
    /\ pc = "idle"
    /\ layers = <<>>
    /\ li = 0
    /\ results_map = << >>
    /\ final_results = <<>>
    /\ failed_task_ids = {}
    /\ executable_tasks = <<>>
    /\ zi = 0
    /\ agents = [k \in AgentKeys |-> NoAgent]
    /\ calls = [i \in {0} \cup Ids |-> 0]
    /\ returned = "nothing"
    /\ mode_a = NoModeA
    /\ answers = WorkerResponses
    /\ ctl = NoCtl
    /\ \E m \in LlmModels, q \in 1..MaxPrompts, u \in BOOLEAN :
          llm = [NoLlm EXCEPT !.pc = "body", !.model = m, !.prompt = q,
                              !.use_cache = u]
    /\ cache \in InitialCaches

ExecutorUnchanged ==
    UNCHANGED << subtasks, max_concurrent, semaphore, pc, layers, li,
                 results_map, final_results, failed_task_ids, executable_tasks,
                 zi, agents, calls, returned, mode_a, answers, ctl >>

\* the body runs up to its first await: cache lookup and routing
BodyStart ==
    /\ llm.pc = "body"
    /\ LET key == cache_key(llm.model, llm.prompt)
       IN IF llm.use_cache /\ key \in DOMAIN cache
          THEN llm' = [llm EXCEPT !.attempts = @ + 1, !.pc = "returned",
                                  !.result = cache[key]]
          ELSE IF route(llm.model) = "unsupported"
          THEN llm' = [llm EXCEPT !.attempts = @ + 1, !.pc = "failed",
                                  !.raised = "ValueError"]
          ELSE llm' = [llm EXCEPT !.attempts = @ + 1, !.pc = "api",
                                  !.api_calls = @ + 1]
    /\ UNCHANGED cache
    /\ ExecutorUnchanged

\* the API answers: the result is built, cached and returned
ApiSuccess ==
    /\ llm.pc = "api"
    /\ \E resp \in answers :
          LET result == llm_result(llm.model, resp)
          IN /\ llm' = [llm EXCEPT !.pc = "returned", !.result = result]
             /\ cache' = IF llm.use_cache
                         THEN Put(cache, cache_key(llm.model, llm.prompt), result)
                         ELSE cache
    /\ ExecutorUnchanged

\* mutant: the failure is stored in the cache before it is raised again
ApiFailCachingError ==
    /\ llm.pc = "api"
    /\ llm' = [llm EXCEPT !.pc = "failed", !.raised = "Exception",
                           !.failures = @ + 1]
    /\ cache' = IF llm.use_cache
                THEN Put(cache, cache_key(llm.model, llm.prompt),
                         [timeout_result(llm.model) EXCEPT !.error = "Exception"])
                ELSE cache
    /\ ExecutorUnchanged

\* the API call raises: `except Exception` logs and raises it again
ApiFail ==
    /\ llm.pc = "api"
    /\ llm' = [llm EXCEPT !.pc = "failed", !.raised = "Exception",
                           !.failures = @ + 1]
    /\ UNCHANGED cache
    /\ ExecutorUnchanged

\* retry_if_exception_type(Exception) holds for whatever the body raised,
\* ValueError included
retry_if_exception_type(raised) == raised \in {"Exception", "ValueError"}

\* mutant: the exception is handed to the caller at any attempt
TenacityReraiseEarly ==
    /\ llm.pc = "failed"
    /\ llm' = [llm EXCEPT !.pc = "raised"]
    /\ UNCHANGED cache
    /\ ExecutorUnchanged

\* stop_after_attempt(3) with reraise=True: the last exception is raised
TenacityReraise ==
    /\ llm.pc = "failed"
    /\ llm.attempts >= MaxAttempts \/ ~retry_if_exception_type(llm.raised)
    /\ llm' = [llm EXCEPT !.pc = "raised"]
    /\ UNCHANGED cache
    /\ ExecutorUnchanged

\* the wait is over and the body runs again
TenacityRetry ==
    /\ llm.pc = "failed"
    /\ llm.attempts < MaxAttempts
    /\ retry_if_exception_type(llm.raised)
    /\ llm' = [llm EXCEPT !.pc = "body", !.raised = "None"]
    /\ UNCHANGED cache
    /\ ExecutorUnchanged

\* asyncio.wait_for of execute_agent cancels the call at the await it is
\* suspended in: the pending request or the wait before the next attempt
Cancelled ==
    /\ \/ llm.pc = "api"
       \/ /\ llm.pc = "failed"
          /\ llm.attempts < MaxAttempts
          /\ retry_if_exception_type(llm.raised)
    /\ llm' = [llm EXCEPT !.pc = "cancelled", !.raised = "CancelledError"]
    /\ UNCHANGED cache
    /\ ExecutorUnchanged

NextLLM ==
    \/ BodyStart
    \/ ApiSuccess
    \/ ApiFail
    \/ TenacityRetry
    \/ TenacityReraise
    \/ Cancelled

SpecLLM == InitLLM /\ [][NextLLM]_vars

\* ----------------------------------------- runs over a filled cache
\* The cache directory holds, from earlier runs, the answers to the bare
\* descriptions of some of the tasks (the prompts of tasks without
\* dependencies); the lists are numbered with dependencies on earlier tasks.
BarePrompt(id) == [context |-> EmptyContext, description |-> id, amendment |-> "none"]

FilledCaches ==
    { [key \in K |-> StoredResult(key)] :
         K \in SUBSET { cache_key(SupportedModel, BarePrompt(id)) : id \in Ids } }

InitCached ==
    /\ subtasks \in OrderedTaskLists
    /\ max_concurrent \in 1..MaxConcurrent
    /\ semaphore = max_concurrent
    /\ pc = "start"
    /\ layers = <<>>
    /\ li = 0
    /\ results_map = << >>
    /\ final_results = <<>>
    /\ failed_task_ids = {}
    /\ executable_tasks = <<>>
    /\ zi = 0
    /\ agents = [k \in AgentKeys |-> NoAgent]
    /\ calls = [i \in {0} \cup Ids |-> 0]
    /\ returned = "nothing"
    /\ mode_a = NoModeA
    /\ answers = WorkerResponses
    /\ ctl = NoCtl
    /\ llm = NoLlm
    /\ cache \in FilledCaches

NextCached ==
    \/ Next
    \/ \E k \in AgentKeys : WorkerCacheHit(k)

SpecCached == InitCached /\ [][NextCached]_vars

\* ------------------------------------------------ Controller._validate_dag
\* the first loop: every dependency is an id of the set and not the task's own
deps_exist(tasks) ==
    LET ids == TaskIds(tasks)
    IN \A i \in 1..Len(tasks) :
          \A j \in 1..Len(tasks[i].depends_on) :
             /\ tasks[i].depends_on[j] \in ids
             /\ tasks[i].depends_on[j] # tasks[i].id

\* next(t for t in subtasks if t["id"] == task_id): the first task with the id
first_with_id(tasks, id) ==
    tasks[CHOOSE i \in 1..Len(tasks) :
             /\ tasks[i].id = id
             /\ \A j \in 1..(i - 1) : tasks[j].id # id]

\* has_cycle(task_id) with the sets visited and path it shares with its
\* callers: dfs is [found, visited, path]
RECURSIVE has_cycle(_, _, _)
RECURSIVE has_cycle_deps(_, _, _, _, _)
has_cycle_deps(tasks, task_id, deps, j, dfs) ==
    IF j > Len(deps)
    THEN [found |-> FALSE, visited |-> dfs.visited, path |-> dfs.path \ {task_id}]
    ELSE IF deps[j] \notin dfs.visited
    THEN LET r == has_cycle(tasks, deps[j], dfs)
         IN IF r.found THEN r ELSE has_cycle_deps(tasks, task_id, deps, j + 1, r)
    ELSE IF deps[j] \in dfs.path
    THEN [found |-> TRUE, visited |-> dfs.visited, path |-> dfs.path]
    ELSE has_cycle_deps(tasks, task_id, deps, j + 1, dfs)

has_cycle(tasks, task_id, dfs) ==
    has_cycle_deps(tasks, task_id, first_with_id(tasks, task_id).depends_on, 1,
                   [found |-> FALSE, visited |-> dfs.visited \cup {task_id},
                    path |-> dfs.path \cup {task_id}])

\* the loop over subtasks that starts a search at every unvisited id
RECURSIVE no_cycle_from(_, _, _)
no_cycle_from(tasks, i, dfs) ==
    IF i > Len(tasks) THEN TRUE
    ELSE IF tasks[i].id \in dfs.visited THEN no_cycle_from(tasks, i + 1, dfs)
    ELSE LET r == has_cycle(tasks, tasks[i].id, dfs)
         IN IF r.found THEN FALSE ELSE no_cycle_from(tasks, i + 1, r)

\* mutant: the search for cycles is left out
validate_dag_without_dfs(tasks) == deps_exist(tasks)

validate_dag(tasks) ==
    /\ deps_exist(tasks)
    /\ no_cycle_from(tasks, 1, [found |-> FALSE, visited |-> {}, path |-> {}])

InitValidate ==
    /\ subtasks \in TaskLists
    /\ max_concurrent = DefaultMaxConcurrent
    /\ semaphore = max_concurrent
    /\ pc = "idle"
    /\ layers = <<>>
    /\ li = 0
    /\ results_map = << >>
    /\ final_results = <<>>
    /\ failed_task_ids = {}
    /\ executable_tasks = <<>>
    /\ zi = 0
    /\ agents = [k \in AgentKeys |-> NoAgent]
    /\ calls = [i \in {0} \cup Ids |-> 0]
    /\ returned = "nothing"
    /\ mode_a = NoModeA
    /\ answers = WorkerResponses
    /\ llm = NoLlm
    /\ cache = << >>
    /\ ctl = [NoCtl EXCEPT !.pc = "validate_dag"]

\* one call of _validate_dag on the list
ValidateDag ==
    /\ ctl.pc = "validate_dag"
    /\ ctl' = [ctl EXCEPT !.pc = "validated", !.verdict = validate_dag(subtasks)]
    /\ UNCHANGED << llm, cache >>
    /\ UNCHANGED << subtasks, max_concurrent, semaphore, pc, layers, li,
                    results_map, final_results, failed_task_ids, executable_tasks,
                    zi, agents, calls, returned, mode_a, answers >>

SpecValidate == InitValidate /\ [][ValidateDag]_vars

\* _validate_dag on tasks as the LLM's JSON gives them: deps_kind tells
\* whether the key depends_on is absent ("missing"), null ("None"), a value
\* that is not a list ("other") or a list ("list", the list is depends_on)
DepsKinds == {"list", "missing", "None", "other"}

RawTaskRecs ==
    { t \in [id : Ids, depends_on : DepLists, deps_kind : DepsKinds] :
        t.deps_kind # "list" => t.depends_on = <<>> }

RawTaskLists == ListsUpTo(RawTaskRecs, MaxTasks)

\* the first loop: deps = task.get("depends_on", []); a value that is not a
\* list ends the call with False unless it is None
deps_exist_raw(tasks) ==
    LET ids == TaskIds(tasks)
    IN \A i \in 1..Len(tasks) :
          /\ tasks[i].deps_kind # "other"
          /\ tasks[i].deps_kind = "list" =>
                \A j \in 1..Len(tasks[i].depends_on) :
                   /\ tasks[i].depends_on[j] \in ids
                   /\ tasks[i].depends_on[j] # tasks[i].id

\* has_cycle(task_id) iterating task.get("depends_on", []): the default is
\* used only when the key is absent, and iterating None raises TypeError
RECURSIVE has_cycle_raw(_, _, _)
RECURSIVE has_cycle_deps_raw(_, _, _, _, _)
has_cycle_deps_raw(tasks, task_id, deps, j, dfs) ==
    IF j > Len(deps)
    THEN [dfs EXCEPT !.path = dfs.path \ {task_id}]
    ELSE IF deps[j] \notin dfs.visited
    THEN LET r == has_cycle_raw(tasks, deps[j], dfs)
         IN IF r.found \/ r.raised THEN r
            ELSE has_cycle_deps_raw(tasks, task_id, deps, j + 1, r)
    ELSE IF deps[j] \in dfs.path
    THEN [dfs EXCEPT !.found = TRUE]
    ELSE has_cycle_deps_raw(tasks, task_id, deps, j + 1, dfs)

has_cycle_raw(tasks, task_id, dfs) ==
    LET task == first_with_id(tasks, task_id)
        entered == [dfs EXCEPT !.visited = dfs.visited \cup {task_id},
                               !.path = dfs.path \cup {task_id}]
    IN IF task.deps_kind = "None"
       THEN [entered EXCEPT !.raised = TRUE]
       ELSE has_cycle_deps_raw(tasks, task_id, task.depends_on, 1, entered)

\* the loop that starts a search at every unvisited id: "True", "False" or
\* the exception that leaves the call
RECURSIVE no_cycle_from_raw(_, _, _)
no_cycle_from_raw(tasks, i, dfs) ==
    IF i > Len(tasks) THEN "True"
    ELSE IF tasks[i].id \in dfs.visited THEN no_cycle_from_raw(tasks, i + 1, dfs)
    ELSE LET r == has_cycle_raw(tasks, tasks[i].id, dfs)
         IN IF r.raised THEN "TypeError"
            ELSE IF r.found THEN "False"
            ELSE no_cycle_from_raw(tasks, i + 1, r)

validate_dag_raw(tasks) ==
    IF ~deps_exist_raw(tasks) THEN "False"
    ELSE no_cycle_from_raw(tasks, 1, [found |-> FALSE, raised |-> FALSE,
                                      visited |-> {}, path |-> {}])

InitValidateRaw ==
    /\ subtasks \in RawTaskLists
    /\ max_concurrent = DefaultMaxConcurrent
    /\ semaphore = max_concurrent
    /\ pc = "idle"
    /\ layers = <<>>
    /\ li = 0
    /\ results_map = << >>
    /\ final_results = <<>>
    /\ failed_task_ids = {}
    /\ executable_tasks = <<>>
    /\ zi = 0
    /\ agents = [k \in AgentKeys |-> NoAgent]
    /\ calls = [i \in {0} \cup Ids |-> 0]
    /\ returned = "nothing"
    /\ mode_a = NoModeA
    /\ answers = WorkerResponses
    /\ llm = NoLlm
    /\ cache = << >>
    /\ ctl = [NoCtl EXCEPT !.pc = "validate_dag"]

\* one call of _validate_dag on the list: it returns or an exception leaves it
ValidateDagRaw ==
    /\ ctl.pc = "validate_dag"
    /\ LET r == validate_dag_raw(subtasks)
       IN ctl' = IF r = "TypeError"
                 THEN [ctl EXCEPT !.pc = "raised"]
                 ELSE [ctl EXCEPT !.pc = "validated", !.verdict = (r = "True")]
    /\ UNCHANGED << llm, cache >>
    /\ UNCHANGED << subtasks, max_concurrent, semaphore, pc, layers, li,
                    results_map, final_results, failed_task_ids, executable_tasks,
                    zi, agents, calls, returned, mode_a, answers >>

SpecValidateRaw == InitValidateRaw /\ [][ValidateDagRaw]_vars

\* ---------------------------------------------- Controller.analyze_and_plan
\* What json.loads makes of a response text after the clean-up of its path:
\* kind "not_json" is a JSONDecodeError, "other" a JSON value that is not an
\* object, "dict" an object whose keys "mode", "plan", "models" are there or
\* not; models and subtasks are plan["plan"].get(..., []).
VALID_MODELS == << "llama-3.3-70b-versatile", SupportedModel >>

PlanModelLists == ListsUpTo(Range(VALID_MODELS) \cup {"gpt-4"}, 2)

\* n independent subtasks numbered 1..n, all bound to one model
PlainSubtasks(n, model) ==
    [i \in 1..n |-> [id |-> i, depends_on |-> <<>>, model |-> model]]

PlanSubtaskLists ==
    { PlainSubtasks(n, m) : n \in 0..MaxPlanTasks, m \in {SupportedModel, "gpt-4"} }
    \cup { l \in TaskLists : Len(l) >= 2 }

NotJson == [NoPlan EXCEPT !.kind = "not_json"]

PlanModes == {"A", "a", "B", "C"}

ParsedResponses ==
    { NotJson, [NotJson EXCEPT !.kind = "other"], [NotJson EXCEPT !.kind = "dict"] }
    \cup { [NotJson EXCEPT !.kind = "dict", !.has_mode = TRUE, !.mode = m] :
              m \in PlanModes }
    \cup { [NotJson EXCEPT !.kind = "dict", !.has_mode = TRUE, !.mode = m,
                           !.has_plan = TRUE, !.has_models = TRUE, !.models = ms] :
              m \in PlanModes, ms \in PlanModelLists }
    \cup { [NotJson EXCEPT !.kind = "dict", !.has_mode = TRUE, !.mode = m,
                           !.has_plan = TRUE, !.subtasks = l] :
              m \in PlanModes, l \in PlanSubtaskLists }

\* _validate_plan; on a JSON value that is not an object it returns False or
\* raises, which its callers treat alike
validate_plan(plan) ==
    IF plan.kind # "dict" \/ ~plan.has_mode THEN FALSE
    ELSE IF ~plan.has_plan THEN FALSE
    ELSE IF plan.mode = "A" THEN Len(plan.models) >= 1
    ELSE IF plan.mode = "B"
    THEN Len(plan.subtasks) >= 2 /\ Len(plan.subtasks) <= 5 /\ validate_dag(plan.subtasks)
    ELSE FALSE

\* _create_mode_a_plan
mode_a_plan ==
    [NotJson EXCEPT !.kind = "dict", !.has_mode = TRUE, !.mode = "A", !.has_plan = TRUE,
                    !.has_models = TRUE, !.models = VALID_MODELS]

\* str.upper on the mode
upper(mode) == IF mode = "a" THEN "A" ELSE mode

\* the list comprehension that keeps the valid models
valid_models(models) ==
    LET ok(m) == m \in Range(VALID_MODELS) IN SelectSeq(models, ok)

\* what the first path does to the parsed plan before returning it
fix_plan(parsed) ==
    LET p1 == [parsed EXCEPT !.mode = upper(parsed.mode)]
        p2 == IF p1.has_plan THEN p1
              ELSE [p1 EXCEPT !.has_plan = TRUE, !.has_models = TRUE,
                              !.models = VALID_MODELS]
    IN IF p2.mode = "A" /\ p2.has_models
       THEN [p2 EXCEPT !.models = IF Len(valid_models(p2.models)) < 2
                                  THEN VALID_MODELS ELSE valid_models(p2.models)]
       ELSE IF p2.mode = "B"
       THEN [p2 EXCEPT !.subtasks =
               [i \in 1..Len(p2.subtasks) |->
                   IF p2.subtasks[i].model \in Range(VALID_MODELS) THEN p2.subtasks[i]
                   ELSE [p2.subtasks[i] EXCEPT
                            !.model = VALID_MODELS[(p2.subtasks[i].id % 2) + 1]]]]
       ELSE p2

\* _semantic_fallback: a Mode A plan, or a Mode B plan of 2 to 5 independent
\* parts of the prompt with the two models in turn
mode_b_plan(n) ==
    [NotJson EXCEPT !.kind = "dict", !.has_mode = TRUE, !.mode = "B", !.has_plan = TRUE,
                    !.subtasks = [i \in 1..n |->
                                    [id |-> i, depends_on |-> <<>>,
                                     model |-> IF i % 2 = 1 THEN VALID_MODELS[1]
                                               ELSE VALID_MODELS[2]]]]

FallbackPlans == { mode_a_plan } \cup { mode_b_plan(n) : n \in 2..5 }

InitPlan ==
    /\ subtasks = <<>>
    /\ max_concurrent = DefaultMaxConcurrent
    /\ semaphore = max_concurrent
    /\ pc = "idle"
    /\ layers = <<>>
    /\ li = 0
    /\ results_map = << >>
    /\ final_results = <<>>
    /\ failed_task_ids = {}
    /\ executable_tasks = <<>>
    /\ zi = 0
    /\ agents = [k \in AgentKeys |-> NoAgent]
    /\ calls = [i \in {0} \cup Ids |-> 0]
    /\ returned = "nothing"
    /\ mode_a = NoModeA
    /\ answers = WorkerResponses
    /\ llm = NoLlm
    /\ cache = << >>
    /\ ctl = [NoCtl EXCEPT !.pc = "decide"]

ControllerStep(next) ==
    /\ ctl' = next
    /\ UNCHANGED << llm, cache >>
    /\ UNCHANGED << subtasks, max_concurrent, semaphore, pc, layers, li,
                    results_map, final_results, failed_task_ids, executable_tasks,
                    zi, agents, calls, returned, mode_a, answers >>

\* _llm_based_decision awaits call_llm with the user's prompt
FirstCall ==
    /\ ctl.pc = "decide"
    /\ ControllerStep([ctl EXCEPT !.pc = "await_first", !.llm_calls = @ + 1])

\* the call returns a text: clean-up, json.loads, the fixes, then
\* analyze_and_plan validates what _llm_based_decision returned (None when
\* the parsed value has no usable "mode")
FirstAnswer ==
    /\ ctl.pc = "await_first"
    /\ \E parsed \in ParsedResponses :
          IF parsed.kind = "not_json"
          THEN ControllerStep([ctl EXCEPT !.pc = "correct", !.first = parsed])
          ELSE IF parsed.kind = "dict" /\ parsed.has_mode /\ validate_plan(fix_plan(parsed))
          THEN ControllerStep([ctl EXCEPT !.pc = "returned", !.first = parsed,
                                          !.plan = fix_plan(parsed)])
          ELSE ControllerStep([ctl EXCEPT !.pc = "fallback", !.first = parsed])

\* the call returns a result with an error: _llm_based_decision returns None
FirstError ==
    /\ ctl.pc = "await_first"
    /\ ControllerStep([ctl EXCEPT !.pc = "fallback"])

\* call_llm raises: nothing in the controller catches it
FirstRaise ==
    /\ ctl.pc = "await_first"
    /\ ControllerStep([ctl EXCEPT !.pc = "raised"])

\* except (json.JSONDecodeError, ValueError): the self-correction call
CorrectionCall ==
    /\ ctl.pc = "correct"
    /\ ControllerStep([ctl EXCEPT !.pc = "await_correction", !.llm_calls = @ + 1])

\* mutant: a correction that does not parse is corrected again
CorrectionAnswerAgain ==
    /\ ctl.pc = "await_correction"
    /\ \E parsed \in ParsedResponses :
          IF parsed.kind = "not_json"
          THEN ControllerStep([ctl EXCEPT !.pc = "correct", !.second = parsed])
          ELSE ControllerStep([ctl EXCEPT
                  !.pc = "returned", !.second = parsed,
                  !.plan = IF validate_plan(parsed) THEN parsed ELSE mode_a_plan])

\* the corrected text is parsed and validated as it is; a plan that does not
\* parse or validate gives the default Mode A plan, which analyze_and_plan
\* validates and returns
CorrectionAnswer ==
    /\ ctl.pc = "await_correction"
    /\ \E parsed \in ParsedResponses :
          ControllerStep([ctl EXCEPT
             !.pc = "returned", !.second = parsed,
             !.plan = IF parsed.kind # "not_json" /\ validate_plan(parsed)
                      THEN parsed ELSE mode_a_plan])

\* the correction call raises: except Exception, then the default plan
CorrectionRaise ==
    /\ ctl.pc = "await_correction"
    /\ ControllerStep([ctl EXCEPT !.pc = "returned", !.plan = mode_a_plan])

\* _semantic_fallback
SemanticFallback ==
    /\ ctl.pc = "fallback"
    /\ \E plan \in FallbackPlans :
          ControllerStep([ctl EXCEPT !.pc = "returned", !.plan = plan])

NextPlan ==
    \/ FirstCall
    \/ FirstAnswer
    \/ FirstError
    \/ FirstRaise
    \/ CorrectionCall
    \/ CorrectionAnswer
    \/ CorrectionRaise
    \/ SemanticFallback

SpecPlan == InitPlan /\ [][NextPlan]_vars

\* ------------------------------------- runs with unsupported model names
\* numbered lists with dependencies on earlier tasks, each task bound to the
\* supported model or to a name call_llm does not route
MixedTaskLists(n) ==
    { l \in [1..n -> [id : 1..n, depends_on : DepLists,
                      model : {SupportedModel, UnsupportedModel}]] :
         \A i \in 1..n :
            /\ l[i].id = i
            /\ \A j \in 1..Len(l[i].depends_on) : l[i].depends_on[j] < i }

InitModels ==
    /\ \E n \in 0..MaxTasks : subtasks \in MixedTaskLists(n)
    /\ max_concurrent \in 1..MaxConcurrent
    /\ semaphore = max_concurrent
    /\ pc = "start"
    /\ layers = <<>>
    /\ li = 0
    /\ results_map = << >>
    /\ final_results = <<>>
    /\ failed_task_ids = {}
    /\ executable_tasks = <<>>
    /\ zi = 0
    /\ agents = [k \in AgentKeys |-> NoAgent]
    /\ calls = [i \in {0} \cup Ids |-> 0]
    /\ returned = "nothing"
    /\ mode_a = NoModeA
    /\ answers = WorkerResponses
    /\ ctl = NoCtl
    /\ llm = NoLlm
    /\ cache = << >>

SpecModels == InitModels /\ [][Next]_vars

\* the event loop runs every coroutine that is ready, and asyncio.wait_for
\* ends every call within the timeout of execute_agent: a run that can take
\* a step takes one
SpecModelsFair == InitModels /\ [][Next]_vars /\ WF_vars(Next)

\* ------------------------------------------------------ graph vocabulary
UniqueIds(tasks) ==
    \A i, j \in 1..Len(tasks) : tasks[i].id = tasks[j].id => i = j

DepsPresent(tasks) ==
    \A i \in 1..Len(tasks) : Range(tasks[i].depends_on) \subseteq TaskIds(tasks)

\* the ids some task with id a lists in depends_on
DirectDeps(tasks, a) ==
    UNION { Range(tasks[i].depends_on) : i \in { j \in 1..Len(tasks) : tasks[j].id = a } }

RECURSIVE Ancestors(_, _)
Ancestors(tasks, S) ==
    LET more == S \cup UNION { DirectDeps(tasks, a) : a \in S }
    IN IF more = S THEN S ELSE Ancestors(tasks, more)

\* the ids a depends on, directly or through a chain
TransDeps(tasks, a) == Ancestors(tasks, DirectDeps(tasks, a))

HasCycle(tasks) == \E a \in TaskIds(tasks) : a \in TransDeps(tasks, a)

ValidDag(tasks) == UniqueIds(tasks) /\ DepsPresent(tasks) /\ ~HasCycle(tasks)

RECURSIVE Flatten(_)
Flatten(lays) == IF lays = <<>> THEN <<>> ELSE Head(lays) \o Flatten(Tail(lays))

\* the indices of the layers that hold a task with this id
LayersOf(lays, id) == { j \in 1..Len(lays) : id \in TaskIds(lays[j]) }

\* the layers whose filter loop has run
FilteredUpTo == IF pc \in {"layer", "done"} THEN li - 1 ELSE li

FilteredTasks == UNION { Range(layers[j]) : j \in 1..FilteredUpTo }

Skipped(id) ==
    id \in DOMAIN results_map /\ results_map[id].error = "Dependency failed"

RunAgentKeys == {RefineKey} \cup LayerKeys

\* ------------------------------------------------------------------ claims

\* C1: for every valid DAG (unique ids, every dependency present, acyclic)
\* _topological_sort returns layers whose concatenation holds each task
\* exactly once, and the layer of a task comes strictly after the layer of
\* every task it depends on.
C1_LayersCoverAndOrder ==
    (pc # "start" /\ ValidDag(subtasks)) =>
        LET flat == Flatten(layers)
        IN /\ Len(flat) = Len(subtasks)
           /\ \A i \in 1..Len(subtasks) :
                 Cardinality({ p \in 1..Len(flat) : flat[p] = subtasks[i] }) = 1
           /\ \A i \in 1..Len(subtasks) :
                 \A d \in Range(subtasks[i].depends_on) :
                    \A a \in LayersOf(layers, subtasks[i].id) :
                       \A b \in LayersOf(layers, d) : b < a

C1_Witness ==
    /\ pc # "start"
    /\ ValidDag(subtasks)
    /\ Len(subtasks) = 3
    /\ Len(layers) = 2
    /\ Len(layers[2]) = 2

\* C2: for every task list with a dependency cycle mode_b_execution returns
\* the empty list and no worker call is issued, no coroutine is started.
C2_CycleRejected ==
    (pc # "start" /\ HasCycle(subtasks)) =>
        /\ pc = "done"
        /\ returned = <<>>
        /\ \A i \in DOMAIN calls : calls[i] = 0
        /\ \A k \in AgentKeys : agents[k].st = "none"

C2_Witness ==
    /\ pc = "done"
    /\ Len(subtasks) = 2
    /\ subtasks[1].id = 1 /\ subtasks[1].depends_on = <<2>>
    /\ subtasks[2].id = 2 /\ subtasks[2].depends_on = <<1>>
    /\ returned = <<>>

\* C3: a task of a layer with a dependency id in failed_task_ids is not
\* issued to a worker: its Result is the synthesized one (error 'Dependency
\* failed', response 'Skipped due to failed dependency', tokens 0, latency
\* 0), and a failed dependency that was run was called exactly once.
C3_SkipOnFailedDependency ==
    \A task \in FilteredTasks :
        \A dep_id \in Range(task.depends_on) :
            dep_id \in failed_task_ids =>
                /\ task.id \in DOMAIN results_map
                /\ results_map[task.id] = skipped_result(task)
                /\ results_map[task.id].error = "Dependency failed"
                /\ results_map[task.id].response.text = "Skipped due to failed dependency"
                /\ results_map[task.id].tokens = 0
                /\ results_map[task.id].latency = 0
                /\ skipped_result(task) \in Range(final_results)
                /\ calls[task.id] = 0
                /\ \A k \in RunAgentKeys : agents[k].id # task.id
                /\ calls[dep_id] = IF Skipped(dep_id) THEN 0 ELSE 1

C3_Witness ==
    /\ pc = "done"
    /\ \E task \in Range(subtasks) :
          /\ Skipped(task.id)
          /\ \E dep_id \in Range(task.depends_on) :
                /\ dep_id \in failed_task_ids
                /\ results_map[dep_id].error = "Timeout"
                /\ calls[dep_id] = 1

\* C4: a worker call that fails after its retries (call_llm raises) does not
\* abort the run: mode_b_execution never ends by raising.
C4_WorkerFailureIsLocal == pc # "raised"

\* C5: no worker call is issued for a task one of whose dependencies has a
\* final Result (after any refinement) that carries an error.
C5_NoCallAfterFailedDependency ==
    \A i \in 1..Len(subtasks) :
        calls[subtasks[i].id] > 0 =>
            \A d \in Range(subtasks[i].depends_on) :
                d \in DOMAIN results_map => results_map[d].error = NoError

\* C6: the number of worker calls in flight through one executor never
\* exceeds its capacity, the refinement calls and the calls of another run
\* on the same executor counted.
InFlight == { k \in AgentKeys : agents[k].st = "inflight" }

C6_InFlightBounded ==
    /\ Cardinality(InFlight) <= max_concurrent
    /\ semaphore >= 0
    /\ semaphore + Cardinality(InFlight) = max_concurrent

C6_Witness ==
    /\ max_concurrent = DefaultMaxConcurrent
    /\ Cardinality(InFlight) = max_concurrent
    /\ \E k \in LayerKeys : agents[k].st = "waiting"
    /\ \E k \in ModeAKeys : agents[k].st = "inflight"

\* C7: layer barrier. No worker call of a task is issued before every one
\* of its dependencies has a Result in results_map; the coroutines of a run
\* all belong to the current layer, every task of the layers before it has
\* its Result, and the results of a layer are stored only when every call
\* of the layer has returned.
C7_LayerBarrier ==
    /\ \A i \in 1..Len(subtasks) :
          calls[subtasks[i].id] > 0 =>
             Range(subtasks[i].depends_on) \subseteq DOMAIN results_map
    /\ \A k \in RunAgentKeys :
          agents[k].st # "none" =>
             /\ li \in 1..Len(layers)
             /\ agents[k].id \in TaskIds(layers[li])
             /\ \A j \in 1..(li - 1) : TaskIds(layers[j]) \subseteq DOMAIN results_map
    /\ pc \in {"store", "refine"} =>
          \A k \in 1..Len(executable_tasks) : agents[k].st = "returned"

C7_Witness ==
    /\ pc = "gather"
    /\ li = 2
    /\ Len(subtasks) = 3
    /\ \E k \in LayerKeys :
          /\ agents[k].st = "inflight"
          /\ agents[k].id = 3
          /\ DirectDeps(subtasks, 3) = {1, 2}
          /\ {1, 2} \subseteq DOMAIN results_map

C9_SkipOnlyOnFailedDependency ==
    /\ \A task \in Range(subtasks) :
          Skipped(task.id) =>
             \E d \in Range(task.depends_on) : d \in failed_task_ids
    /\ \A task \in FilteredTasks :
          (\A d \in Range(task.depends_on) : d \notin failed_task_ids) =>
             /\ ~Skipped(task.id)
             /\ pc \in {"gather", "store", "refine"} /\ task \in Range(layers[li])
                   => task \in Range(executable_tasks)
             /\ pc = "done" =>
                   /\ calls[task.id] >= 1
                   /\ task.id \in DOMAIN results_map
                   /\ \E p \in 1..Len(returned) : returned[p] = results_map[task.id]

C9_Witness ==
    /\ pc = "done"
    /\ Len(subtasks) = 3
    /\ \E a, b, c \in Range(subtasks) :
          /\ a.depends_on = <<>> /\ b.depends_on = <<>> /\ c.depends_on = <<b.id>>
          /\ a.id # b.id
          /\ a.id \in DOMAIN results_map /\ results_map[a.id].error = "Timeout"
          /\ results_map[b.id].error = NoError /\ calls[b.id] >= 1
          /\ results_map[c.id].error = NoError /\ calls[c.id] >= 1

\* C10: a run on a valid graph that returns gives exactly one Result per
\* submitted task: every id is there, none twice.
C10_OneResultPerTask ==
    (pc = "done" /\ ValidDag(subtasks)) =>
        /\ Len(returned) = Len(subtasks)
        /\ \A i \in 1..Len(subtasks) :
              Cardinality({ p \in 1..Len(returned) : returned[p].id = subtasks[i].id }) = 1

C10_Witness ==
    /\ pc = "done"
    /\ ValidDag(subtasks)
    /\ Len(returned) = 3
    /\ \E p \in 1..Len(returned) : calls[returned[p].id] = 2
    /\ \E p \in 1..Len(returned) : returned[p].error = "Dependency failed"

\* C11: a task list that is invalid for a reason other than a cycle (a
\* dependency id that no task has, a task that lists its own id, two tasks
\* with one id) makes mode_b_execution return the empty list: no worker call
\* is issued, no coroutine is created and no partial result is kept.
SelfDependency(tasks) ==
    \E i \in 1..Len(tasks) : tasks[i].id \in Range(tasks[i].depends_on)

C11_InvalidStructureRejected ==
    (pc # "start" /\ (~UniqueIds(subtasks) \/ ~DepsPresent(subtasks)
                                          \/ SelfDependency(subtasks))) =>
        /\ pc = "done"
        /\ returned = <<>>
        /\ final_results = <<>>
        /\ results_map = << >>
        /\ \A i \in DOMAIN calls : calls[i] = 0
        /\ \A k \in AgentKeys : agents[k].st = "none"

\* two tasks share id 1, and the third names an id no task has
C11_Witness ==
    /\ pc = "done"
    /\ Len(subtasks) = 3
    /\ subtasks[1].id = 1 /\ subtasks[1].depends_on = <<>>
    /\ subtasks[2].id = 1 /\ subtasks[2].depends_on = <<>>
    /\ subtasks[3].id = 2 /\ subtasks[3].depends_on = <<3>>
    /\ returned = <<>>

\* C12: every worker call of execute_agent holds exactly one slot of the
\* semaphore while it lasts: the slot is taken when the call begins and given
\* back exactly once when it ends, whether with a result, a timeout or an
\* exception; no task, refined or not, has two calls in flight at once, and
\* when the run has returned every slot is free again.
Entering == { k \in AgentKeys : agents[k].st # "inflight" /\ agents'[k].st = "inflight" }
Leaving == { k \in AgentKeys : agents[k].st = "inflight" /\ agents'[k].st # "inflight" }

C12_SlotPerCall ==
    /\ [][/\ semaphore' = semaphore - Cardinality(Entering) + Cardinality(Leaving)
          /\ Cardinality(Entering) + Cardinality(Leaving) <= 1
          /\ \A k \in Entering : agents[k].st = "waiting" /\ semaphore > 0
          /\ \A k \in Leaving : agents'[k].st \in {"returned", "raised"}]_vars
    /\ [](\A j, k \in InFlight : agents[j].id = agents[k].id => j = k)
    /\ [](pc = "done" => semaphore = max_concurrent /\ InFlight = {})

\* a returned run in which one call timed out, one task was refined (two
\* calls, one after the other) and every slot is free again
C12_Witness ==
    /\ pc = "done"
    /\ semaphore = max_concurrent
    /\ \E i \in Ids : calls[i] = 2
    /\ \E i \in DOMAIN results_map : results_map[i].error = "Timeout"
    /\ Len(returned) = 3

\* C13: a worker call that exceeds the timeout makes execute_agent return,
\* not raise and not call again: the Result has error "Timeout", the timeout
\* as latency, the empty response and zero tokens, and the run goes on.
TimedOut(result) == result.error = "Timeout"

C13_TimeoutIsAResult ==
    /\ [][\A k \in AgentKeys :
            WorkerTimeout(k) =>
               /\ agents'[k].st = "returned"
               /\ TimedOut(agents'[k].result)
               /\ agents'[k].result.latency = TimeoutSeconds
               /\ agents'[k].result.response = EmptyText
               /\ agents'[k].result.tokens = 0
               /\ agents'[k].result.model = agents[k].model
               /\ calls' = calls
               /\ pc' = pc]_vars
    /\ [](\A i \in DOMAIN results_map :
            TimedOut(results_map[i]) =>
               /\ results_map[i].latency = TimeoutSeconds
               /\ results_map[i].response = EmptyText
               /\ results_map[i].tokens = 0
               /\ \A k \in RunAgentKeys :
                     agents[k].id = i => agents[k].st \notin {"waiting", "inflight"})

\* the only task of a run timed out and the run returned its Result
C13_Witness ==
    /\ pc = "done"
    /\ Len(returned) = 1
    /\ TimedOut(returned[1])
    /\ returned[1].latency = TimeoutSeconds
    /\ calls[returned[1].id] = 1

\* C14: the prompt issued for a task with dependencies carries, under the
\* "Previous Results" header, one block for each entry of depends_on, in the
\* order of depends_on, labelled with the dependency's id and holding the
\* response stored for that dependency (cut as _build_context cuts it).
LayerPrompt(k) == agents[k].prompt

C14_ContextHoldsEveryDependency ==
    \A k \in 1..Len(executable_tasks) :
       LET task == executable_tasks[k]
           deps == task.depends_on
           blocks == LayerPrompt(k).context.blocks
       IN (agents[k].st # "none" /\ deps # <<>>) =>
             /\ LayerPrompt(k).description = task.id
             /\ LayerPrompt(k).context.header
             /\ Len(blocks) = Len(deps)
             /\ \A j \in 1..Len(deps) :
                   /\ blocks[j].id = deps[j]
                   /\ deps[j] \in DOMAIN results_map
                   /\ blocks[j].response = results_map[deps[j]].response
                   /\ blocks[j].kept = Min(blocks[j].response.len, MaxContextChars)

\* task 3 depends on 2 and 1 in that order, the two answered differently,
\* and the call of task 3 is in flight with the two blocks in that order
C14_Witness ==
    /\ Len(subtasks) = 3
    /\ subtasks[3].depends_on = <<2, 1>>
    /\ \E k \in LayerKeys :
          /\ agents[k].st = "inflight"
          /\ agents[k].id = 3
          /\ Len(LayerPrompt(k).context.blocks) = 2
          /\ LayerPrompt(k).context.blocks[1].id = 2
          /\ LayerPrompt(k).context.blocks[2].id = 1
          /\ LayerPrompt(k).context.blocks[1].response.text = "detailed"
          /\ LayerPrompt(k).context.blocks[2].response.text = "report"

\* C15: for every valid DAG the first layer is exactly the tasks without
\* dependencies and each later layer is exactly the tasks not placed before
\* it whose dependencies all lie in earlier layers; so the layer index of a
\* task is one more than the largest layer index of its dependencies.
\* Tasks 1:{}, 2:{1}, 3:{1}, 4:{2,3} give the layers [1], [2,3], [4].
PlacedBefore(k) == UNION { TaskIds(layers[j]) : j \in 1..(k - 1) }

LayerIndex(id) == CHOOSE j \in 1..Len(layers) : id \in TaskIds(layers[j])

MaxOf(S) == CHOOSE x \in S : \A y \in S : y <= x

C15_LayersAreLongestPathLevels ==
    /\ (pc # "start" /\ ValidDag(subtasks)) => pc = "sorted"
    /\ pc = "sorted" =>
          /\ \A k \in 1..Len(layers) :
                /\ TaskIds(layers[k]) =
                      { id \in TaskIds(subtasks) \ PlacedBefore(k) :
                           DirectDeps(subtasks, id) \subseteq PlacedBefore(k) }
                /\ Len(layers[k]) = Cardinality(TaskIds(layers[k]))
                /\ Range(layers[k]) \subseteq Range(subtasks)
          /\ \A id \in TaskIds(subtasks) :
                LayerIndex(id) =
                   IF DirectDeps(subtasks, id) = {} THEN 1
                   ELSE 1 + MaxOf({ LayerIndex(d) : d \in DirectDeps(subtasks, id) })

C15_Witness ==
    /\ pc = "sorted"
    /\ Len(subtasks) = 4
    /\ subtasks[1].depends_on = <<>>
    /\ subtasks[2].depends_on = <<1>>
    /\ subtasks[3].depends_on = <<1>>
    /\ subtasks[4].depends_on = <<2, 3>>
    /\ layers = << << subtasks[1] >>, << subtasks[2], subtasks[3] >>, << subtasks[4] >> >>

\* C16: the refinement decision on a Result without error. A response of
\* fewer than 50 characters starts one refinement call with the "too short"
\* amendment, a weak phrase in it or not; otherwise a response with a weak
\* phrase starts one with the "do not apologize" amendment; otherwise (50
\* characters exactly, or more, and no weak phrase) no refinement call is
\* made and the loop goes to the next task.
Evaluated == agents[zi].result

RefinementStartedWith(amendment) ==
    /\ pc' = "refine"
    /\ zi' = zi
    /\ agents'[RefineKey].st = "waiting"
    /\ agents'[RefineKey].id = executable_tasks[zi].id
    /\ agents'[RefineKey].prompt.description = executable_tasks[zi].id
    /\ agents'[RefineKey].prompt.amendment = amendment

C17_AtMostOneRefinement ==
    /\ [](\A id \in Ids :
             /\ calls[id] <= 2
             /\ Skipped(id) => calls[id] = 0
             /\ (id \in failed_task_ids /\ ~Skipped(id)) => calls[id] = 1)
    /\ [](pc = "refine" =>
             /\ final_results[Len(final_results)].error = NoError
             /\ calls[executable_tasks[zi].id] = IF agents[RefineKey].st = "waiting" THEN 1 ELSE 2)
    /\ [][(pc = "refine" /\ pc' # "refine") =>
             /\ pc' \in {"store", "raised"}
             /\ agents'[RefineKey].st \in {"none", "raised"}
             /\ calls' = calls]_vars
    /\ [][(pc = "store" /\ zi <= Len(executable_tasks) /\ Evaluated.error # NoError) =>
             /\ pc' = "store"
             /\ agents' = agents
             /\ calls' = calls]_vars

\* a returned run: task 1 was refined and its second answer is short again,
\* task 2 timed out on its first call, task 3 was skipped
C17_Witness ==
    /\ pc = "done"
    /\ Len(returned) = 3
    /\ calls[1] = 2 /\ returned[1].error = NoError /\ needs_refinement(returned[1])
    /\ calls[2] = 1 /\ TimedOut(returned[2])
    /\ calls[3] = 0 /\ Skipped(3)

\* C18: the Result of a refinement call, with or without an error, replaces
\* the task's first Result in results_map and at the task's position of the
\* output list, nothing else changing there; and the context of a task of a
\* later layer is built from the replacing Result.
RefinedTask == executable_tasks[zi]

C18_RefinementReplaces ==
    /\ [][(pc = "refine" /\ agents[RefineKey].st = "returned" /\ pc' # "refine") =>
             LET refined == Tagged(agents[RefineKey].result, RefinedTask)
                 at == Len(final_results)
             IN /\ final_results[at].id = RefinedTask.id
                /\ results_map'[RefinedTask.id] = refined
                /\ DOMAIN results_map' = DOMAIN results_map
                /\ \A i \in DOMAIN results_map \ {RefinedTask.id} :
                      results_map'[i] = results_map[i]
                /\ Len(final_results') = at
                /\ final_results'[at] = refined
                /\ \A p \in 1..(at - 1) : final_results'[p] = final_results[p]]_vars
    /\ [](\A k \in 1..Len(executable_tasks) :
             agents[k].st # "none" =>
                \A j \in 1..Len(LayerPrompt(k).context.blocks) :
                   LET dep == LayerPrompt(k).context.blocks[j].id
                   IN \E p \in 1..Len(final_results) :
                         /\ final_results[p].id = dep
                         /\ final_results[p] = results_map[dep]
                         /\ LayerPrompt(k).context.blocks[j].response = final_results[p].response)

\* task 1 answered, was refined and the refinement timed out: the Timeout
\* Result stands in the output list and the prompt of its dependent, task 2,
\* holds the empty response of that Result
C18_Witness ==
    /\ Len(subtasks) >= 2
    /\ subtasks[2].depends_on = <<1>>
    /\ calls[1] = 2
    /\ Len(final_results) >= 1
    /\ final_results[1].id = 1 /\ TimedOut(final_results[1])
    /\ \E k \in LayerKeys :
          /\ agents[k].st = "inflight" /\ agents[k].id = 2
          /\ LayerPrompt(k).context.blocks[1].response = EmptyText

\* C19: call_llm makes at most 3 attempts. When the first two requests fail
\* and the third succeeds the result is returned after exactly 3 attempts,
\* and a failure reaches the caller only after the third attempt failed.
C19_BoundedRetries ==
    /\ llm.attempts <= MaxAttempts
    /\ llm.api_calls <= llm.attempts
    /\ llm.pc = "raised" => llm.attempts = MaxAttempts
    /\ (llm.pc = "raised" /\ llm.raised = "Exception") => llm.failures = MaxAttempts
    /\ llm.pc = "returned" =>
          /\ llm.attempts = llm.failures + 1
          /\ llm.result.error = NoError
          /\ llm.failures = 2 => llm.attempts = 3

\* two requests failed and the third answered
C19_Witness ==
    /\ llm.pc = "returned"
    /\ llm.failures = 2
    /\ llm.api_calls = 3
    /\ llm.attempts = 3
    /\ llm.result.error = NoError

\* C20: an unsupported model name makes call_llm raise at the first
\* attempt, without a retry: the body runs exactly once.
C20_ConfigErrorNotRetried ==
    route(llm.model) = "unsupported" => llm.attempts <= 1

\* C21: a call whose (model, prompt) has a stored result goes round the
\* semaphore and the timeout: it never holds a slot, is never kept waiting
\* for one, and never ends as a Timeout.
C21_CacheHitBypassesGate ==
    \A k \in RunAgentKeys :
       CacheHit(k) =>
          /\ agents[k].st # "inflight"
          /\ ~(agents[k].st = "waiting" /\ semaphore = 0)
          /\ ~(agents[k].st = "returned" /\ TimedOut(agents[k].result))

\* C22: on a task list with distinct ids _validate_dag returns True exactly
\* when every depends_on entry is an id of the list, no task lists its own
\* id and the dependency relation has no cycle, and False otherwise.
C22_ValidateDagDecidesValidity ==
    (ctl.pc = "validated" /\ UniqueIds(subtasks)) =>
        (ctl.verdict <=> (/\ DepsPresent(subtasks)
                          /\ ~SelfDependency(subtasks)
                          /\ ~HasCycle(subtasks)))

\* accepted: 3 depends on 2 and 1, 2 on 1, listed in another order
C22_Witness ==
    /\ ctl.pc = "validated"
    /\ ctl.verdict
    /\ Len(subtasks) = 3
    /\ subtasks[1].id = 3 /\ subtasks[1].depends_on = <<1, 2>>
    /\ subtasks[2].id = 2 /\ subtasks[2].depends_on = <<1>>
    /\ subtasks[3].id = 1 /\ subtasks[3].depends_on = <<>>

\* C23: _validate_dag returns False for every task list in which two tasks
\* have the same id, also when every dependency is well-formed.
C23_DuplicateIdsRejected ==
    (ctl.pc = "validated" /\ ~UniqueIds(subtasks)) => ~ctl.verdict

\* C24: when the first response of the controller's LLM does not parse as
\* JSON, analyze_and_plan makes exactly one correction call, two LLM calls
\* in all and never more, and returns the corrected plan when it validates
\* and the default Mode A plan when the correction fails.
FirstUnparseable == ctl.first.kind = "not_json"

C24_OneCorrectionCall ==
    /\ ctl.llm_calls <= 2
    /\ (ctl.pc = "returned" /\ FirstUnparseable) =>
          /\ ctl.llm_calls = 2
          /\ ctl.plan = IF ctl.second.kind \notin {"none", "not_json"}
                           /\ validate_plan(ctl.second)
                        THEN ctl.second ELSE mode_a_plan
          /\ validate_plan(ctl.plan)
    /\ (ctl.pc = "returned" /\ ~FirstUnparseable) => ctl.llm_calls = 1

\* the first text did not parse, the corrected one is a valid Mode B plan
C24_Witness ==
    /\ ctl.pc = "returned"
    /\ FirstUnparseable
    /\ ctl.llm_calls = 2
    /\ ctl.plan = ctl.second
    /\ ctl.plan.mode = "B"
    /\ Len(ctl.plan.subtasks) = 5

\* C25: when a layer has completed, failed_task_ids is exactly the set of
\* ids whose Result in results_map has an error, a Result stored by a
\* refinement included.
LayerCompleted == pc \in {"layer", "done"} /\ li >= 1

C25_FailedSetIsErrorSet ==
    LayerCompleted =>
        failed_task_ids = { id \in DOMAIN results_map : results_map[id].error # NoError }

\* C26: a task bound to an unsupported model is a fatal error of the run.
\* Its call never ends with a Result: it raises, the exception leaves
\* mode_b_execution, nothing is stored for the task and its id does not
\* enter failed_task_ids (a task skipped before any call aside).
Unsupported(model) == model # SupportedModel

C26_UnsupportedModelIsFatal ==
    /\ \A k \in RunAgentKeys :
          (agents[k].st # "none" /\ Unsupported(agents[k].model)) =>
             /\ agents[k].st \in {"waiting", "inflight", "raised"}
             /\ agents[k].st = "raised" => pc \in {"gather", "refine", "raised"}
    /\ \A i \in 1..Len(subtasks) :
          Unsupported(subtasks[i].model) =>
             /\ subtasks[i].id \in DOMAIN results_map => Skipped(subtasks[i].id)
             /\ subtasks[i].id \in failed_task_ids => Skipped(subtasks[i].id)
             /\ calls[subtasks[i].id] <= 1
             /\ (pc = "done" /\ returned # <<>>) => calls[subtasks[i].id] = 0

\* task 1 answered and is stored, task 2 is bound to the unsupported name:
\* its call raised and the run raised, with nothing stored for task 2
C26_Witness ==
    /\ pc = "raised"
    /\ Len(subtasks) = 2
    /\ subtasks[2].depends_on = <<1>>
    /\ Unsupported(subtasks[2].model)
    /\ DOMAIN results_map = {1}
    /\ calls[2] = 1
    /\ failed_task_ids = {}

\* C27: the timeout of one worker call leaves the other calls of the layer
\* as they are, in flight or waiting; when the gather has returned every
\* runnable task of the layer has its own Result, and after the layer every
\* task of it has a Result stored.
C27_TimeoutSparesSiblings ==
    /\ [][\A k \in AgentKeys :
            WorkerTimeout(k) =>
               \A j \in AgentKeys \ {k} : agents'[j] = agents[j]]_vars
    /\ [](pc = "store" =>
            \A k \in 1..Len(executable_tasks) :
               /\ agents[k].st = "returned"
               /\ agents[k].id = executable_tasks[k].id
               /\ agents[k].result # NoResult)
    /\ [](LayerCompleted =>
            \A j \in 1..(li - 1) : TaskIds(layers[j]) \subseteq DOMAIN results_map)

\* the call of one task has timed out, the call of its sibling is in flight
\* still, and then returns its answer
C27_Witness ==
    /\ pc = "gather"
    /\ Len(executable_tasks) = 2
    /\ agents[1].st = "returned" /\ TimedOut(agents[1].result)
    /\ agents[2].st = "inflight"
    /\ ENABLED WorkerReturn(2)

\* C28: a refinement blocks the completion of its layer. While a refinement
\* call triggered by a Result of layer k is waiting or in flight the run is
\* at that await: no call of a task of a later layer exists, and the
\* contexts of layer k+1 are built only when no refinement call is pending.
RefinementPending == agents[RefineKey].st \in {"waiting", "inflight"}

C28_RefinementBlocksLayer ==
    /\ [](RefinementPending =>
             /\ pc = "refine"
             /\ agents[RefineKey].id \in TaskIds(layers[li])
             /\ \A k \in LayerKeys :
                   agents[k].st # "none" =>
                      /\ agents[k].st = "returned"
                      /\ agents[k].id \in TaskIds(layers[li]))
    /\ [][(pc = "layer" /\ pc' = "gather") =>
             /\ ~RefinementPending
             /\ agents[RefineKey].st = "none"
             /\ \A k \in LayerKeys : agents[k].st = "none"]_vars

\* the refinement of a task of layer 1 is in flight and layer 2 has not begun
C28_Witness ==
    /\ pc = "refine"
    /\ agents[RefineKey].st = "inflight"
    /\ li = 1
    /\ Len(layers) >= 2
    /\ \A id \in TaskIds(layers[2]) : calls[id] = 0 /\ id \notin DOMAIN results_map

\* C29: within a layer the Results are appended to the output list in the
\* order in which the tasks completed: a task whose call has returned while
\* the call of another task of the layer is still in flight comes before
\* that task in the output list.
CompletedBefore(i, j) ==
    /\ pc = "gather"
    /\ \E a, b \in 1..Len(executable_tasks) :
          /\ agents[a].id = i /\ agents[a].st = "returned"
          /\ agents[b].id = j /\ agents[b].st = "inflight"

PositionOf(id) == CHOOSE p \in 1..Len(final_results) : final_results[p].id = id

ListedBefore(i, j) ==
    ({i, j} \subseteq { final_results[p].id : p \in 1..Len(final_results) }) =>
        PositionOf(i) < PositionOf(j)

C29_OutputInCompletionOrder ==
    \A i, j \in Ids :
        i # j => [](CompletedBefore(i, j) => [](pc = "done" => ListedBefore(i, j)))

C31_ValidateDagNeverThrows ==
    ctl.pc \in {"validate_dag", "validated"}

\* C32: a Result stored in results_map is replaced only by the refinement
\* of its own task while the layer of that task is being stored: the Results
\* of a completed layer are left as they are by every later step of the run.
C32_StoredResultsFrozen ==
    [][\A id \in DOMAIN results_map :
          /\ id \in DOMAIN results_map'
          /\ results_map'[id] # results_map[id] =>
                /\ pc = "refine"
                /\ id = executable_tasks[zi].id
                /\ id \in TaskIds(layers[li])]_vars

\* the second layer has stored a refined Result while the Result of a task
\* of the first layer is in results_map
C32_Witness ==
    /\ pc = "store"
    /\ li = 2
    /\ \E id \in TaskIds(layers[1]) : id \in DOMAIN results_map
    /\ \E id \in TaskIds(layers[2]) :
          /\ id \in DOMAIN results_map
          /\ calls[id] = 2

\* C33: call_llm with caching enabled looks in the cache before it sends a
\* request: on a hit it returns the stored result, sends nothing and leaves
\* the cache as it is; the cache is written only in the step in which a
\* request has succeeded, with the result of that request, so never by a
\* call that failed or was cut off by the timeout.
C33_CacheFirstWriteOnSuccess ==
    [][LET key == cache_key(llm.model, llm.prompt)
       IN /\ (llm.pc = "body" /\ llm.use_cache /\ key \in DOMAIN cache) =>
                /\ llm'.pc = "returned"
                /\ llm'.result = cache[key]
                /\ llm'.api_calls = llm.api_calls
                /\ cache' = cache
          /\ cache' # cache =>
                /\ llm.pc = "api"
                /\ llm.use_cache
                /\ llm'.pc = "returned"
                /\ llm'.result.error = NoError
                /\ cache' = Put(cache, key, llm'.result)
          /\ llm'.pc \in {"failed", "raised", "cancelled"} => cache' = cache]_vars

\* a call answered from the cache at its first attempt: no request was sent
C33_Witness ==
    /\ llm.pc = "returned"
    /\ llm.use_cache
    /\ llm.attempts = 1
    /\ llm.api_calls = 0
    /\ cache_key(llm.model, llm.prompt) \in DOMAIN cache
    /\ llm.result = cache[cache_key(llm.model, llm.prompt)]

\* C34: in the context built for a task the response of a dependency that
\* is longer than 2000 characters is cut to its first 2000 characters and
\* followed by the truncation marker; a response of 2000 characters or fewer
\* is included whole and without the marker.
C34_LongResponsesCutAtBound ==
    \A k \in 1..Len(executable_tasks) :
       agents[k].st # "none" =>
          \A j \in 1..Len(LayerPrompt(k).context.blocks) :
             LET block == LayerPrompt(k).context.blocks[j]
                 stored == results_map[block.id].response
             IN /\ block.response = stored
                /\ stored.len > MaxContextChars =>
                      /\ block.kept = MaxContextChars
                      /\ block.truncated
                /\ stored.len <= MaxContextChars =>
                      /\ block.kept = stored.len
                      /\ ~block.truncated

\* the prompt of a call in flight holds a response of 2001 characters, cut
\* and marked, and one of 2000 characters, whole
C34_Witness ==
    \E k \in LayerKeys :
       /\ agents[k].st = "inflight"
       /\ \E i, j \in 1..Len(LayerPrompt(k).context.blocks) :
             LET cut == LayerPrompt(k).context.blocks[i]
                 whole == LayerPrompt(k).context.blocks[j]
             IN /\ cut.response.len = MaxContextChars + 1
                /\ cut.kept = MaxContextChars
                /\ cut.truncated
                /\ whole.response.len = MaxContextChars
                /\ whole.kept = MaxContextChars
                /\ ~whole.truncated

\* C35: a task whose depends_on is missing or empty (task.get("depends_on",
\* []) gives the empty list for both) is free of dependencies: it is in the
\* first layer, and the prompt given to execute_agent for it is its
\* description alone, with an empty context. A run on n such tasks (with
\* distinct ids) has one layer holding the n tasks and, when it returns,
\* returns n Results, one for each task.
DependencyFree(task) == task.depends_on = <<>>

AllDependencyFree(tasks) ==
    /\ UniqueIds(tasks)
    /\ \A i \in 1..Len(tasks) : DependencyFree(tasks[i])

C35_DependencyFreeTasks ==
    /\ layers # <<>> =>
          \A i \in 1..Len(subtasks) :
             DependencyFree(subtasks[i]) => subtasks[i].id \in TaskIds(layers[1])
    /\ \A k \in 1..Len(executable_tasks) :
          (agents[k].st # "none" /\ DependencyFree(executable_tasks[k])) =>
             /\ li = 1
             /\ LayerPrompt(k).context = EmptyContext
             /\ ~LayerPrompt(k).context.header
             /\ LayerPrompt(k).description = executable_tasks[k].id
             /\ LayerPrompt(k).amendment = "none"
    /\ (AllDependencyFree(subtasks) /\ subtasks # <<>> /\ pc # "start") =>
          layers = << subtasks >>
    /\ (AllDependencyFree(subtasks) /\ pc = "done") =>
          /\ Len(returned) = Len(subtasks)
          /\ \A i \in 1..Len(subtasks) : returned[i].id = subtasks[i].id

\* three tasks without dependencies: the run has returned three Results
\* from its single layer
C35_Witness ==
    /\ pc = "done"
    /\ Len(subtasks) = MaxTasks
    /\ AllDependencyFree(subtasks)
    /\ Len(layers) = 1
    /\ Len(returned) = MaxTasks

\* C36: the layers _topological_sort returns are a function of the input
\* list alone: layer k is the sub-list of the input, in input order, of the
\* tasks whose longest chain of dependencies has k tasks. The same list
\* therefore always gives the same layers in the same order.
RECURSIVE Level(_, _)
Level(tasks, id) ==
    IF DirectDeps(tasks, id) = {} THEN 1
    ELSE 1 + MaxOf({ Level(tasks, d) : d \in DirectDeps(tasks, id) })

InputOrderLayers(tasks) ==
    LET depth == MaxOf({ Level(tasks, id) : id \in TaskIds(tasks) })
    IN [k \in 1..depth |->
          LET at_level(t) == Level(tasks, t.id) = k
          IN SelectSeq(tasks, at_level)]

C36_LayersDeterminedByInput ==
    layers # <<>> => layers = InputOrderLayers(subtasks)

\* a list that is not in the order of its ids: the first layer holds its two
\* tasks in the order of the list, the larger id first
C36_Witness ==
    /\ Len(layers) = 2
    /\ Len(subtasks) = 3
    /\ layers[1] = << subtasks[1], subtasks[2] >>
    /\ subtasks[1].id > subtasks[2].id
    /\ layers[2] = << subtasks[3] >>

Terminated == pc \in {"done", "raised"}

C38_EveryRunTerminates ==
    /\ <>Terminated
    /\ \A k \in AgentKeys : (agents[k].st = "waiting") ~> (agents[k].st # "waiting")

\* a gate of capacity 1 is held by the call of one task of a layer of three
\* while the calls of the other two wait for it
C38_Witness ==
    /\ max_concurrent = 1
    /\ semaphore = 0
    /\ pc = "gather"
    /\ Len(executable_tasks) = MaxTasks
    /\ \E k \in LayerKeys :
          /\ agents[k].st = "inflight"
          /\ \A j \in LayerKeys \ {k} : agents[j].st = "waiting"

\* C39: the plan analyze_and_plan returns is valid whatever the LLM
\* answered: Mode A with at least one model, or Mode B with 2 to 5 subtasks
\* whose dependencies are ids of the plan, none of them the task's own, and
\* without a cycle.
PlanIsValid(plan) ==
    /\ plan.kind = "dict"
    /\ plan.has_mode
    /\ plan.has_plan
    /\ \/ plan.mode = "A" /\ Len(plan.models) >= 1
       \/ /\ plan.mode = "B"
          /\ Len(plan.subtasks) >= 2
          /\ Len(plan.subtasks) <= 5
          /\ DepsPresent(plan.subtasks)
          /\ ~SelfDependency(plan.subtasks)
          /\ ~HasCycle(plan.subtasks)

C39_ReturnedPlanIsValid ==
    ctl.pc = "returned" => PlanIsValid(ctl.plan)

\* C40: the prompt of a refinement call is the description of the task
\* followed by one of the two fixed amendments. It holds no context: for a
\* task with dependencies the "Previous Results" blocks that the prompt of
\* its first call carried are not in it.
RefinePrompt == agents[RefineKey].prompt

C40_RefinementDropsContext ==
    agents[RefineKey].st # "none" =>
       /\ RefinePrompt.description = RefinedTask.id
       /\ RefinePrompt.amendment \in {"PREVIOUS ATTEMPT WAS TOO SHORT",
                                      "PREVIOUS ATTEMPT FAILED. DO NOT APOLOGIZE"}
       /\ RefinePrompt.context = EmptyContext
       /\ LayerPrompt(zi).description = RefinePrompt.description
       /\ RefinedTask.depends_on # <<>> =>
             /\ LayerPrompt(zi).context.header
             /\ LayerPrompt(zi).context.blocks # <<>>
             /\ RefinePrompt.context # LayerPrompt(zi).context

\* the refinement call of a task with two dependencies is in flight: its
\* first prompt held two blocks, this one holds none
C40_Witness ==
    /\ pc = "refine"
    /\ agents[RefineKey].st = "inflight"
    /\ Len(RefinedTask.depends_on) = 2
    /\ Len(LayerPrompt(zi).context.blocks) = 2
    /\ RefinePrompt.context.blocks = <<>>
    /\ RefinePrompt.amendment = "PREVIOUS ATTEMPT FAILED. DO NOT APOLOGIZE"

====
